---- MODULE Spec2Model ----
(***************************************************************************)
(* A model of the object-tree library (lib/object-tree/src/graph.rs): an   *)
(* n-ary tree of typed nodes that is flattened into a graph, hashed        *)
(* bottom-up into a Merkle DAG, serialized node by node to a line-oriented *)
(* byte stream, read back and verified against its stored hashes.          *)
(*                                                                         *)
(* Text is a sequence of tokens.  A token is a string standing for a run   *)
(* of characters that holds none of the three characters the codec treats  *)
(* specially, which are tokens of their own: "=", " " and "\n".  A name is *)
(* a sequence of one-character tokens.  NodeIndex values are 1-based here  *)
(* (petgraph's are 0-based) and 0 stands for Option::None.                 *)
(***************************************************************************)
EXTENDS Naturals, Sequences, FiniteSets, TLC

VARIABLES
    run,        \* 1 for the first call of create_from_root, 2 for the second
    pc,         \* position in the operation under way
    input,      \* the NodeWithChildren handed to create_from_root
    stack,      \* HashingTree::create_from_root: the work stack
    graph,      \* HashingTree.graph (under construction, then owned by it)
    root_idx,   \* HashingTree.root_idx as an Option (0 = None)
    hashes,     \* HashingTree.hashes
    dfspo,      \* compute_hashes: the DfsPostOrder walker
    hgraph,     \* create_hashed_tree: the graph of HashedNode under construction
    hroot_idx,  \* create_hashed_tree: root_idx as an Option (0 = None)
    hstack,     \* create_hashed_tree: the stack of StackEntry
    tree,       \* the ObjectTree returned to the caller, if any
    err,        \* the GraphError returned to the caller, if any
    verdict,    \* the result of the last verify_hash call
    prev,       \* what the first call returned, kept by the caller
    schematic,  \* Schematic::prune_node: self
    ws,         \* code generation: the WebSocket, as its peer sees it
    request,    \* CodeGenerationExecution::start: the request read, if any
    child,      \* code generation: the child process
    stdout,     \* code generation: what the child's stdout stream has yielded
    finished,   \* CodeGenerationServerExecutionClosing::finish: result of ws_send_finish
    closed,     \* finish: result of ws_close
    shutdown    \* finish: result of child_shutdown

vars == <<run, pc, input, stack, graph, root_idx, hashes, dfspo,
          hgraph, hroot_idx, hstack, tree, err, verdict, prev,
          schematic, ws, request, child, stdout, finished, closed, shutdown>>

\* the state of an object tree under construction
tree_vars == <<stack, graph, root_idx, hashes, dfspo, hgraph, hroot_idx, hstack, tree>>

\* the state of a code generation execution
cyclone_vars == <<ws, request, child, stdout, finished, closed, shutdown>>

(***************************************************************************)
(* Bounds of the model.                                                    *)
(***************************************************************************)
MaxNodes == 3
MaxEntries == 3
MaxBuildNodes == 4
MaxEntryLines == 2
MaxOutput == 2
MaxPredecessors == 2
MaxSuccessors == 1

(***************************************************************************)
(* Constants of the wire format.                                           *)
(***************************************************************************)
KEY_VERSION_STR == "version"
KEY_NODE_KIND_STR == "node_kind"
KEY_OBJECT_KIND_STR == "object_kind"
VAL_VERSION_STR == "1"
NL == "\n"
SP == " "
EQ == "="

Leaf == "Leaf"
Tree == "Tree"
NodeKind == {Leaf, Tree}

\* strum's AsRefStr with serialize_all = "camelCase"
NodeKindAsRef(kind) == IF kind = Leaf THEN "leaf" ELSE "tree"

(***************************************************************************)
(* Results, and `let v = e; F(v)`: the value of e, computed once.          *)
(***************************************************************************)
Ok(v) == [ok |-> TRUE, val |-> v]
Err(e) == [ok |-> FALSE, err |-> e]

Let(e, F(_)) == CHOOSE r \in { F(v) : v \in {e} } : TRUE

(***************************************************************************)
(* Hash: an opaque digest of a byte sequence.  The digest is collision     *)
(* resistant, which is modelled as injective: the digest of a byte         *)
(* sequence is a token that no other byte sequence yields.  Display        *)
(* renders the digest as one run of hex characters, that is, one token.    *)
(***************************************************************************)
HashNew(bytes) == ToString(bytes)

(***************************************************************************)
(* The payload type T: a name, an object kind tag and one value.           *)
(* write_bytes emits a `name=<name>` line and a `payload=<value>` line.    *)
(***************************************************************************)
KEY_NAME_STR == "name"
KEY_PAYLOAD_STR == "payload"
Names == {<<"a">>, <<"b">>}
PayloadValues == {"x", "y"}
ObjectKinds == {"prop", "schema_variant_child"}

InnerNew(name, object_kind, payload) ==
    [name |-> name, object_kind |-> object_kind, payload |-> payload]

InnerName(inner) == inner.name
InnerObjectKind(inner) == inner.object_kind

\* byte values of the characters names are made of
ByteVal(c) == IF c = " " THEN 32 ELSE IF c = "B" THEN 66 ELSE IF c = "a" THEN 97 ELSE 98

\* String's Ord: byte-wise lexicographic
RECURSIVE StrLess(_, _)
StrLess(x, y) ==
    IF y = <<>> THEN FALSE
    ELSE IF x = <<>> THEN TRUE
    ELSE IF ByteVal(Head(x)) /= ByteVal(Head(y))
         THEN ByteVal(Head(x)) < ByteVal(Head(y))
         ELSE StrLess(Tail(x), Tail(y))

(***************************************************************************)
(* Writers.                                                                *)
(***************************************************************************)
write_key_value_line(writer, key, value) == writer \o <<key, EQ>> \o value \o <<NL>>

write_separator_bytes(writer) == writer \o <<NL>>

\* a header without its node_kind line
write_header_bytes_without_kind(writer, kind, object_kind) ==
    LET w1 == write_key_value_line(writer, KEY_VERSION_STR, <<VAL_VERSION_STR>>)
    IN  write_key_value_line(w1, KEY_OBJECT_KIND_STR, <<object_kind>>)

write_header_bytes(writer, kind, object_kind) ==
    LET w1 == write_key_value_line(writer, KEY_VERSION_STR, <<VAL_VERSION_STR>>)
        w2 == write_key_value_line(w1, KEY_NODE_KIND_STR, <<NodeKindAsRef(kind)>>)
    IN  write_key_value_line(w2, KEY_OBJECT_KIND_STR, <<object_kind>>)

InnerWriteBytes(writer, inner) ==
    LET w1 == write_key_value_line(writer, KEY_NAME_STR, inner.name)
    IN  write_key_value_line(w1, KEY_PAYLOAD_STR, <<inner.payload>>)

NodeEntryNew(kind, hash, name) == [kind |-> kind, hash |-> hash, name |-> name]

\* an entry line without its kind field
NodeEntryWriteBytesWithoutKind(writer, entry) ==
    writer \o <<entry.hash, SP>> \o entry.name \o <<NL>>

NodeEntryWriteBytes(writer, entry) ==
    writer \o <<NodeKindAsRef(entry.kind), SP, entry.hash, SP>> \o entry.name \o <<NL>>

\* Vec::sort_by_key(|k| &k.name): a stable sort, done here by insertion
InsertByName(sorted, e) ==
    LET k == Cardinality({i \in 1..Len(sorted) : ~StrLess(e.name, sorted[i].name)})
    IN  SubSeq(sorted, 1, k) \o <<e>> \o SubSeq(sorted, k + 1, Len(sorted))

\* a sort by the length of the name first
InsertByNameLength(sorted, e) ==
    LET k == Cardinality({i \in 1..Len(sorted) : Len(sorted[i].name) <= Len(e.name)})
    IN  SubSeq(sorted, 1, k) \o <<e>> \o SubSeq(sorted, k + 1, Len(sorted))

RECURSIVE SortByNameLength(_)
SortByNameLength(entries) ==
    IF entries = <<>> THEN <<>>
    ELSE Let(SortByNameLength(SubSeq(entries, 1, Len(entries) - 1)),
             LAMBDA sorted : InsertByNameLength(sorted, entries[Len(entries)]))

\* the entries written in the order given, not sorted
SortByNameSkipped(entries) == entries

RECURSIVE SortByName(_)
SortByName(entries) ==
    IF entries = <<>> THEN <<>>
    ELSE Let(SortByName(SubSeq(entries, 1, Len(entries) - 1)),
             LAMBDA sorted : InsertByName(sorted, entries[Len(entries)]))

RECURSIVE WriteEntries(_, _)
WriteEntries(writer, entries) ==
    IF entries = <<>> THEN writer
    ELSE WriteEntries(NodeEntryWriteBytes(writer, Head(entries)), Tail(entries))

\* impl WriteBytes for NodeWithEntriesRef
NodeWithEntriesRefWriteBytes(writer, kind, inner, entries) ==
    LET w1 == write_header_bytes(writer, kind, InnerObjectKind(inner))
        w2 == write_separator_bytes(w1)
        w3 == InnerWriteBytes(w2, inner)
    IN  IF entries /= <<>>
        THEN WriteEntries(write_separator_bytes(w3), SortByName(entries))
        ELSE w3

\* WriteBytes::to_bytes
ToBytes(kind, inner, entries) == NodeWithEntriesRefWriteBytes(<<>>, kind, inner, entries)

(***************************************************************************)
(* Readers.  A reader is the sequence of tokens not yet consumed; every    *)
(* read returns its result and the reader after it.                        *)
(***************************************************************************)
WhiteSpace == {" ", "\n", "\t", "\r"}

IndexOf(s, c) ==
    IF \E i \in 1..Len(s) : s[i] = c
    THEN CHOOSE i \in 1..Len(s) : s[i] = c /\ \A j \in 1..(i - 1) : s[j] /= c
    ELSE 0

LastIndexOf(s, c) ==
    IF \E i \in 1..Len(s) : s[i] = c
    THEN CHOOSE i \in 1..Len(s) : s[i] = c /\ \A j \in (i + 1)..Len(s) : s[j] /= c
    ELSE 0

\* BufRead::read_line: up to and including the next newline, or to the end
ReadLine(reader) ==
    LET k == IndexOf(reader, NL)
    IN  IF k = 0 THEN [line |-> reader, rest |-> <<>>]
        ELSE [line |-> SubSeq(reader, 1, k), rest |-> SubSeq(reader, k + 1, Len(reader))]

\* str::trim_end
RECURSIVE TrimEnd(_)
TrimEnd(s) ==
    IF s /= <<>> /\ s[Len(s)] \in WhiteSpace
    THEN TrimEnd(SubSeq(s, 1, Len(s) - 1))
    ELSE s

\* the split made at the last '=' of the line
SplitOnceLastEq(s) ==
    Let(LastIndexOf(s, EQ), LAMBDA k :
        IF k = 0 THEN [some |-> FALSE]
        ELSE [some |-> TRUE, key |-> SubSeq(s, 1, k - 1),
              value |-> SubSeq(s, k + 1, Len(s))])

\* str::split_once('='): Some((before, after)) at the first '=', or None
SplitOnceEq(s) ==
    Let(IndexOf(s, EQ), LAMBDA k :
        IF k = 0 THEN [some |-> FALSE]
        ELSE [some |-> TRUE, key |-> SubSeq(s, 1, k - 1),
              value |-> SubSeq(s, k + 1, Len(s))])

read_key_value_line(reader, key) ==
    Let(ReadLine(reader), LAMBDA l :
    Let(SplitOnceEq(TrimEnd(l.line)), LAMBDA split :
        IF ~split.some
        THEN [res |-> Err(<<"ParseLineKeyValueFormat", l.line>>), rest |-> l.rest]
        ELSE IF split.key = <<key>>
        THEN [res |-> Ok(split.value), rest |-> l.rest]
        ELSE [res |-> Err(<<"ParseLineExpectedKey", key, split.key>>),
              rest |-> l.rest]))

\* the line is read and not looked at
read_empty_line_unchecked(reader) ==
    Let(ReadLine(reader), LAMBDA l : [res |-> Ok(<<>>), rest |-> l.rest])

read_empty_line(reader) ==
    Let(ReadLine(reader), LAMBDA l :
        IF TrimEnd(l.line) = <<>>
        THEN [res |-> Ok(<<>>), rest |-> l.rest]
        ELSE [res |-> Err(<<"ParseLineBlank", l.line>>), rest |-> l.rest])

\* NodeKind::from_str (strum's EnumString, camelCase)
NodeKindFromStr(s) ==
    IF s = <<"leaf">> THEN Ok(Leaf)
    ELSE IF s = <<"tree">> THEN Ok(Tree)
    ELSE Err(<<"Parse", "VariantNotFound">>)

\* the tokens of the model that are not the rendering of a Hash
PlainTokens ==
    {KEY_VERSION_STR, KEY_NODE_KIND_STR, KEY_OBJECT_KIND_STR, VAL_VERSION_STR,
     KEY_NAME_STR, KEY_PAYLOAD_STR, NL, SP, EQ, "\t", "\r", "leaf", "tree", "2",
     "a", "b", "B"} \cup PayloadValues \cup ObjectKinds

\* Hash::from_str: the hex rendering of a digest, and nothing else, parses
HashFromStr(s) ==
    IF Len(s) = 1 /\ s[1] \notin PlainTokens THEN Ok(s[1])
    ELSE Err(<<"Parse", "InvalidHash">>)

\* BufRead::lines: the remaining lines, each without its newline
\* a line of BufRead::lines: without its "\n" or "\r\n"
StripNewline(line) ==
    IF line[Len(line)] /= NL THEN line
    ELSE IF Len(line) >= 2 /\ line[Len(line) - 1] = "\r"
    THEN SubSeq(line, 1, Len(line) - 2)
    ELSE SubSeq(line, 1, Len(line) - 1)

RECURSIVE Lines(_)
Lines(reader) ==
    IF reader = <<>> THEN <<>>
    ELSE Let(ReadLine(reader), LAMBDA l : <<StripNewline(l.line)>> \o Lines(l.rest))

\* str::splitn(3, ' ') instead: the pieces from the left
SplitN3(line) ==
    LET i1 == IndexOf(line, SP)
        right == SubSeq(line, i1 + 1, Len(line))
        i2 == IndexOf(right, SP)
    IN  IF i1 = 0 THEN <<line>>
        ELSE IF i2 = 0 THEN <<SubSeq(line, 1, i1 - 1), right>>
        ELSE <<SubSeq(line, 1, i1 - 1), SubSeq(right, 1, i2 - 1),
               SubSeq(right, i2 + 1, Len(right))>>

\* str::rsplitn(3, ' ') collected into a Vec: the pieces from the right,
\* at most three, the last holding the unsplit left part of the line
RSplitN3(line) ==
    LET i2 == LastIndexOf(line, SP)
        left == SubSeq(line, 1, i2 - 1)
        i1 == LastIndexOf(left, SP)
    IN  IF i2 = 0 THEN <<line>>
        ELSE IF i1 = 0 THEN <<SubSeq(line, i2 + 1, Len(line)), left>>
        ELSE <<SubSeq(line, i2 + 1, Len(line)), SubSeq(left, i1 + 1, Len(left)),
               SubSeq(left, 1, i1 - 1)>>

\* a line without a name field read as an entry with an empty name
ParseEntryLineNameOptional(line) ==
    Let(RSplitN3(line), LAMBDA parts :
        LET n == Len(parts)
            kind == NodeKindFromStr(parts[n])
            hash == HashFromStr(parts[n - 1])
        IN  IF ~kind.ok THEN kind
            ELSE IF n < 2
            THEN Err(<<"ParseCustom", "missing hash field in entry line">>)
            ELSE IF ~hash.ok THEN hash
            ELSE IF n < 3
            THEN Ok(NodeEntryNew(kind.val, hash.val, <<>>))
            ELSE Ok(NodeEntryNew(kind.val, hash.val, parts[n - 2])))

\* the body of the loop of read_node_entry_lines: parts.pop() three times
ParseEntryLine(line) ==
    Let(RSplitN3(line), LAMBDA parts :
        LET n == Len(parts)
            kind == NodeKindFromStr(parts[n])
            hash == HashFromStr(parts[n - 1])
        IN  IF ~kind.ok THEN kind
            ELSE IF n < 2
            THEN Err(<<"ParseCustom", "missing hash field in entry line">>)
            ELSE IF ~hash.ok THEN hash
            ELSE IF n < 3
            THEN Err(<<"ParseCustom", "missing name field in entry line">>)
            ELSE Ok(NodeEntryNew(kind.val, hash.val, parts[n - 2])))

\* a loop that stops at the first line that does not parse and returns the
\* entries read so far
RECURSIVE ParseEntryLinesLenient(_, _, _)
ParseEntryLinesLenient(lines, i, entries) ==
    IF i > Len(lines) THEN Ok(entries)
    ELSE Let(ParseEntryLine(lines[i]), LAMBDA e :
             IF e.ok THEN ParseEntryLinesLenient(lines, i + 1, Append(entries, e.val))
             ELSE Ok(entries))

\* for line in reader.lines() { .. entries.push(NodeEntry { kind, hash, name }) }
RECURSIVE ParseEntryLines(_, _, _)
ParseEntryLines(lines, i, entries) ==
    IF i > Len(lines) THEN Ok(entries)
    ELSE Let(ParseEntryLine(lines[i]), LAMBDA e :
             IF e.ok THEN ParseEntryLines(lines, i + 1, Append(entries, e.val))
             ELSE e)

read_node_entry_lines(reader) ==
    Let(Lines(reader), LAMBDA lines : ParseEntryLines(lines, 1, <<>>))

\* T::read_bytes of the payload type
InnerReadBytes(reader) ==
    Let(read_key_value_line(reader, KEY_NAME_STR), LAMBDA name :
        IF ~name.res.ok THEN name
        ELSE
    Let(read_key_value_line(name.rest, KEY_PAYLOAD_STR), LAMBDA payload :
        IF ~payload.res.ok THEN payload
        ELSE IF Len(payload.res.val) /= 1
        THEN [res |-> Err(<<"ParseCustom", "invalid payload">>), rest |-> payload.rest]
        ELSE [res |-> Ok(InnerNew(name.res.val, "prop", payload.res.val[1])),
              rest |-> payload.rest]))

\* the rest of the reader after read_node_entry_lines returned an error:
\* lines() was advanced up to and including the line that failed
RECURSIVE SkipEntryLines(_)
SkipEntryLines(reader) ==
    IF reader = <<>> THEN <<>>
    ELSE Let(ReadLine(reader), LAMBDA l :
             IF ParseEntryLine(StripNewline(l.line)).ok THEN SkipEntryLines(l.rest)
             ELSE l.rest)

\* any version value passes
VersionIsValidAlways(version_str) == TRUE

\* version_str != VAL_VERSION_STR, negated
VersionIsValid(version_str) == version_str = <<VAL_VERSION_STR>>

\* the object kind line is read but its value is not looked at
ObjectKindIsExpectedAlways(object_kind_str) == TRUE

\* object_kind_str != "prop", negated
ObjectKindIsExpected(object_kind_str) == object_kind_str = <<"prop">>

\* impl ReadBytes for NodeWithEntries: the result, and the reader after it
NodeWithEntriesReadBytes(reader) ==
    Let(read_key_value_line(reader, KEY_VERSION_STR), LAMBDA version_str :
        IF ~version_str.res.ok THEN version_str
        ELSE IF ~VersionIsValid(version_str.res.val)
        THEN [res |-> Err(<<"InvalidNodeVersion", version_str.res.val>>),
              rest |-> version_str.rest]
        ELSE
    Let(read_key_value_line(version_str.rest, KEY_NODE_KIND_STR), LAMBDA kind_str :
        IF ~kind_str.res.ok THEN kind_str
        ELSE
    Let(NodeKindFromStr(kind_str.res.val), LAMBDA kind :
        IF ~kind.ok THEN [res |-> kind, rest |-> kind_str.rest]
        ELSE
    Let(read_key_value_line(kind_str.rest, KEY_OBJECT_KIND_STR), LAMBDA object_kind_str :
        IF ~object_kind_str.res.ok THEN object_kind_str
        ELSE IF ~ObjectKindIsExpected(object_kind_str.res.val)
        THEN [res |-> Err(<<"ParseCustom", "expected object kind to be prop">>),
              rest |-> object_kind_str.rest]
        ELSE
    Let(read_empty_line(object_kind_str.rest), LAMBDA blank :
        IF ~blank.res.ok THEN blank
        ELSE
    Let(InnerReadBytes(blank.rest), LAMBDA node :
        IF ~node.res.ok THEN node
        ELSE
    Let(IF kind.val = Leaf THEN [res |-> Ok(<<>>), rest |-> node.rest]
        ELSE Let(read_empty_line(node.rest), LAMBDA blank2 :
                 IF ~blank2.res.ok THEN blank2
                 ELSE Let(read_node_entry_lines(blank2.rest), LAMBDA es :
                          [res |-> es,
                           rest |-> IF es.ok THEN <<>>
                                    ELSE SkipEntryLines(blank2.rest)])),
        LAMBDA entries :
        IF ~entries.res.ok THEN entries
        ELSE [res |-> Ok([kind |-> kind.val, inner |-> node.res.val,
                          entries |-> entries.res.val]),
              rest |-> entries.rest])))))))

\* ReadBytes::from_bytes: read_bytes on a reader over the whole buffer
FromBytes(buf) == NodeWithEntriesReadBytes(buf).res

\* HashedNodeWithEntries::from_node_with_entries_and_hash
from_node_with_entries_and_hash(node_with_entries, hash) ==
    [kind |-> node_with_entries.kind, hash |-> hash,
     inner |-> node_with_entries.inner, entries |-> node_with_entries.entries]

(***************************************************************************)
(* petgraph's Graph: node weights and edges in the order they were added.  *)
(***************************************************************************)
GraphNew == [nodes |-> <<>>, edges |-> <<>>]

AddNode(g, weight) == [g EXCEPT !.nodes = Append(@, weight)]

AddEdge(g, a, b) == [g EXCEPT !.edges = Append(@, <<a, b>>)]

\* create_from_root, Some(parent_idx) => graph.add_edge(parent_idx, node_idx, ()):
\* the edge runs parent -> child
AttachChild(g, parent_idx, node_idx) == AddEdge(g, parent_idx, node_idx)

\* the edge added twice
AttachHashedChildTwice(g, parent_idx, node_idx) ==
    AddEdge(AddEdge(g, parent_idx, node_idx), parent_idx, node_idx)

AttachHashedChildSkipped(g, parent_idx, node_idx) == g

\* create_hashed_tree, Some(parent_idx) => graph.add_edge(parent_idx, node_idx, ())
AttachHashedChild(g, parent_idx, node_idx) == AddEdge(g, parent_idx, node_idx)

\* Graph::neighbors_directed(a, Outgoing): a node's outgoing edges are
\* chained newest first, so the targets come in reverse order of addition
RECURSIVE NeighborsFrom(_, _, _)
NeighborsFrom(edges, a, k) ==
    IF k = 0 THEN <<>>
    ELSE (IF edges[k][1] = a THEN <<edges[k][2]>> ELSE <<>>)
         \o NeighborsFrom(edges, a, k - 1)

Neighbors(edges, a) == NeighborsFrom(edges, a, Len(edges))

InDegree(g, n) == Cardinality({i \in 1..Len(g.edges) : g.edges[i][2] = n})
OutDegree(g, n) == Cardinality({i \in 1..Len(g.edges) : g.edges[i][1] = n})

(***************************************************************************)
(* petgraph's DfsPostOrder.  next() looks at the top of its stack: a node  *)
(* seen for the first time stays there and its undiscovered neighbours are *)
(* pushed; a node seen again is popped and, if not yet finished, returned. *)
(***************************************************************************)
DfsPostOrderNew(start) == [stack |-> <<start>>, discovered |-> {}, finished |-> {}]

\* a walk that hands out a node when it first meets it, before its children
RECURSIVE DfsPreOrderNext(_, _)
DfsPreOrderNext(self, g) ==
    Let(self, LAMBDA d :
        IF d.stack = <<>> THEN [dfs |-> d, node |-> 0]
        ELSE LET nx == d.stack[Len(d.stack)]
                 popped == [d EXCEPT !.stack = SubSeq(@, 1, Len(@) - 1)]
             IN  IF nx \notin d.discovered
                 THEN [dfs |-> [popped EXCEPT
                                  !.discovered = @ \cup {nx},
                                  !.finished = @ \cup {nx},
                                  !.stack = @ \o SelectSeq(Neighbors(g.edges, nx),
                                                 LAMBDA c : c \notin d.discovered)],
                       node |-> nx]
                 ELSE DfsPreOrderNext(popped, g))

RECURSIVE DfsPostOrderNext(_, _)
DfsPostOrderNext(self, g) ==
    Let(self, LAMBDA d :
        IF d.stack = <<>> THEN [dfs |-> d, node |-> 0]
        ELSE LET nx == d.stack[Len(d.stack)]
             IN  IF nx \notin d.discovered
                 THEN LET disc == d.discovered \cup {nx}
                          succs == SelectSeq(Neighbors(g.edges, nx),
                                             LAMBDA s : s \notin disc)
                      IN  DfsPostOrderNext([d EXCEPT !.discovered = disc,
                                                     !.stack = @ \o succs], g)
                 ELSE LET popped == [d EXCEPT !.stack = SubSeq(@, 1, Len(@) - 1)]
                      IN  IF nx \notin d.finished
                          THEN [dfs |-> [popped EXCEPT !.finished = @ \cup {nx}],
                                node |-> nx]
                          ELSE DfsPostOrderNext(popped, g))

(***************************************************************************)
(* The inputs: NodeWithChildren trees of at most MaxNodes nodes.           *)
(***************************************************************************)
NodeWithChildrenNew(kind, inner, children) ==
    [kind |-> kind, inner |-> inner, children |-> children]

RECURSIVE TreesOfSize(_), Forests(_)
TreesOfSize(n) ==
    { NodeWithChildrenNew(k, InnerNew(nm, "prop", "x"), f) :
        k \in NodeKind, nm \in Names, f \in Forests(n - 1) }
Forests(m) ==
    IF m = 0 THEN {<<>>}
    ELSE UNION { { <<t>> \o f : t \in TreesOfSize(k), f \in Forests(m - k) } :
                 k \in 1..m }

InputTrees == UNION { TreesOfSize(n) : n \in 1..MaxNodes }

\* the same tree with the children list of one node (or of none) permuted
RECURSIVE OnePermutation(_)
OnePermutation(t) ==
    LET n == Len(t.children)
    IN  { [t EXCEPT !.children = [i \in 1..n |-> t.children[p[i]]]] :
            p \in Permutations(1..n) }
        \cup UNION { { [t EXCEPT !.children[j] = c] : c \in OnePermutation(t.children[j]) } :
                     j \in 1..n }

\* the same tree with the kind, the payload value or the object kind of
\* exactly one node changed
RECURSIVE OneChange(_)
OneChange(t) ==
    { [t EXCEPT !.kind = k] : k \in NodeKind \ {t.kind} }
    \cup { [t EXCEPT !.inner.payload = v] : v \in PayloadValues \ {t.inner.payload} }
    \cup { [t EXCEPT !.inner.object_kind = o] : o \in ObjectKinds \ {t.inner.object_kind} }
    \cup UNION { { [t EXCEPT !.children[j] = c] : c \in OneChange(t.children[j]) } :
                 j \in 1..Len(t.children) }

SecondInputs(t) == OnePermutation(t) \cup OneChange(t)

(***************************************************************************)
(* The state before the first call, and what a call that ends drops.       *)
(***************************************************************************)
\* no Schematic at hand
NoSchematic == [nodes |-> <<>>, edges |-> <<>>]

\* a step of an execution that has not run
NotRun == [ok |-> FALSE, err |-> "not run"]

\* no code generation execution at hand
NoExecution ==
    /\ ws = [sent |-> <<>>, closed |-> FALSE]
    /\ request = <<>>
    /\ child = [state |-> "none", stdin |-> <<>>]
    /\ stdout = [yielded |-> <<>>, ended |-> FALSE]
    /\ finished = NotRun
    /\ closed = NotRun
    /\ shutdown = NotRun

NoTree == [graph |-> GraphNew, root_idx |-> 0]
NoVerdict == [op |-> "none"]
NoDfs == [stack |-> <<>>, discovered |-> {}, finished |-> {}]
NoPrev == [input |-> <<>>, tree |-> NoTree]

Init ==
    /\ schematic = NoSchematic
    /\ NoExecution
    /\ run = 1
    /\ pc = "start"
    /\ input \in InputTrees
    /\ stack = <<>>
    /\ graph = GraphNew
    /\ root_idx = 0
    /\ hashes = <<>>
    /\ dfspo = NoDfs
    /\ hgraph = GraphNew
    /\ hroot_idx = 0
    /\ hstack = <<>>
    /\ tree = NoTree
    /\ err = "none"
    /\ verdict = NoVerdict
    /\ prev = NoPrev

\* the locals of a call are dropped when it returns
DropLocals ==
    /\ stack' = <<>>
    /\ graph' = GraphNew
    /\ root_idx' = 0
    /\ hashes' = <<>>
    /\ dfspo' = NoDfs
    /\ hgraph' = GraphNew
    /\ hroot_idx' = 0
    /\ hstack' = <<>>

\* a call returns Err(e): `?` hands the error to the caller and nothing else
Fail(e) ==
    /\ pc' = "failed"
    /\ err' = e
    /\ DropLocals
    /\ UNCHANGED <<run, input, tree, verdict, prev>>

(***************************************************************************)
(* HashingTree::create_from_root                                           *)
(***************************************************************************)
\* let mut graph = Graph::new(); let mut root_idx = None;
\* let hashes = HashMap::new(); let mut stack = vec![(node, None)];
CreateFromRootBegin ==
    /\ pc = "start"
    /\ UNCHANGED <<schematic, cyclone_vars>>
    /\ pc' = "build"
    /\ graph' = GraphNew
    /\ root_idx' = 0
    /\ hashes' = <<>>
    /\ stack' = <<[node |-> input, parent_idx |-> 0]>>
    /\ UNCHANGED <<run, input, dfspo, hgraph, hroot_idx, hstack, tree, err, verdict, prev>>

\* the children pushed in the order given, not reversed
PushChildrenInOrder(stk, children, node_idx) ==
    stk \o [i \in 1..Len(children) |-> [node |-> children[i], parent_idx |-> node_idx]]

\* the children pushed without their parent
PushChildrenDetached(stk, children, node_idx) ==
    stk \o [i \in 1..Len(children) |->
              [node |-> children[Len(children) + 1 - i], parent_idx |-> 0]]

\* the children pushed, but for the last of them
PushChildrenSkippingLast(stk, children, node_idx) ==
    IF children = <<>> THEN stk
    ELSE stk \o [i \in 1..(Len(children) - 1) |->
                   [node |-> children[Len(children) - i], parent_idx |-> node_idx]]

\* for child in children.into_iter().rev() { stack.push((child, Some(node_idx))) }
RECURSIVE PushChildren(_, _, _)
PushChildren(stk, children, node_idx) ==
    IF children = <<>> THEN stk
    ELSE PushChildren(Append(stk, [node |-> children[Len(children)],
                                   parent_idx |-> node_idx]),
                      SubSeq(children, 1, Len(children) - 1), node_idx)

\* one iteration of `while let Some(..) = stack.pop()`
CreateFromRootStep ==
    /\ pc = "build"
    /\ UNCHANGED <<schematic, cyclone_vars>>
    /\ stack /= <<>>
    /\ LET top == stack[Len(stack)]
           popped == SubSeq(stack, 1, Len(stack) - 1)
           node == [kind |-> top.node.kind, inner |-> top.node.inner]
           children == top.node.children
           g1 == AddNode(graph, node)
           node_idx == Len(g1.nodes)
       IN  IF top.parent_idx /= 0
           THEN /\ graph' = AttachChild(g1, top.parent_idx, node_idx)
                /\ stack' = PushChildren(popped, children, node_idx)
                /\ UNCHANGED <<run, pc, input, root_idx, hashes, dfspo, hgraph,
                               hroot_idx, hstack, tree, err, verdict, prev>>
           ELSE IF root_idx = 0
           THEN /\ graph' = g1
                /\ root_idx' = node_idx
                /\ stack' = PushChildren(popped, children, node_idx)
                /\ UNCHANGED <<run, pc, input, hashes, dfspo, hgraph,
                               hroot_idx, hstack, tree, err, verdict, prev>>
           ELSE Fail("MultipleRootNode")

\* match root_idx { Some(root_idx) => Ok(HashingTree {..}), None => Err(MissingRootNode) }
CreateFromRootEnd ==
    /\ pc = "build"
    /\ UNCHANGED <<schematic, cyclone_vars>>
    /\ stack = <<>>
    /\ IF root_idx /= 0
       THEN /\ pc' = "unhashed"
            /\ UNCHANGED <<run, input, stack, graph, root_idx, hashes, dfspo, hgraph,
                           hroot_idx, hstack, tree, err, verdict, prev>>
       ELSE Fail("MissingRootNode")

(***************************************************************************)
(* HashingTree::hash_tree and compute_hashes                               *)
(***************************************************************************)
\* hash_tree(self) enters compute_hashes: DfsPostOrder::new(&self.graph, self.root_idx)
HashTreeBegin ==
    /\ pc = "unhashed"
    /\ UNCHANGED <<schematic, cyclone_vars>>
    /\ pc' = "hashing"
    /\ dfspo' = DfsPostOrderNew(root_idx)
    /\ UNCHANGED <<run, input, stack, graph, root_idx, hashes, hgraph,
                   hroot_idx, hstack, tree, err, verdict, prev>>

\* entries that carry the kind of the parent instead of the child's
ChildEntriesParentKind(g, hs, node_idx) ==
    LET ns == Neighbors(g.edges, node_idx)
    IN  Ok([i \in 1..Len(ns) |->
               NodeEntryNew(g.nodes[node_idx].kind, hs[ns[i]],
                            InnerName(g.nodes[ns[i]].inner))])

\* entries gathered in an order that differs from one call to the next
ChildEntriesUnstableOrder(g, hs, node_idx) ==
    LET ns == Neighbors(g.edges, node_idx)
        at(i) == IF run = 1 THEN ns[i] ELSE ns[Len(ns) + 1 - i]
    IN  Ok([i \in 1..Len(ns) |->
               NodeEntryNew(g.nodes[at(i)].kind, hs[at(i)],
                            InnerName(g.nodes[at(i)].inner))])

\* the entries of the direct children of node_idx, or UnhashedChild
ChildEntries(g, hs, node_idx) ==
    LET ns == Neighbors(g.edges, node_idx)
        missing == {i \in 1..Len(ns) : ns[i] \notin DOMAIN hs}
    IN  IF missing /= {}
        THEN LET first == CHOOSE i \in missing : \A j \in missing : i <= j
             IN  Err(<<"UnhashedChild", InnerName(g.nodes[node_idx].inner),
                       InnerName(g.nodes[ns[first]].inner)>>)
        ELSE Ok([i \in 1..Len(ns) |->
                    NodeEntryNew(g.nodes[ns[i]].kind, hs[ns[i]],
                                 InnerName(g.nodes[ns[i]].inner))])

\* a hash over the node's own bytes only, its children's entries left out
ComputeHashWithoutEntries(node, entries) == HashNew(ToBytes(node.kind, node.inner, <<>>))

\* the hash of a node: Hash::new of its serialization with its entries
ComputeHash(node, entries) == HashNew(ToBytes(node.kind, node.inner, entries))

\* one iteration of `while let Some(node_idx) = dfspo.next(&self.graph)`
ComputeHashesStep ==
    /\ pc = "hashing"
    /\ UNCHANGED <<schematic, cyclone_vars>>
    /\ \E r \in {DfsPostOrderNext(dfspo, graph)} :
           /\ r.node /= 0
           /\ \E entries \in {ChildEntries(graph, hashes, r.node)} :
                  IF entries.ok
                  THEN /\ hashes' = (r.node :> ComputeHash(graph.nodes[r.node], entries.val))
                                    @@ hashes
                       /\ dfspo' = r.dfs
                       /\ UNCHANGED <<run, pc, input, stack, graph, root_idx, hgraph,
                                      hroot_idx, hstack, tree, err, verdict, prev>>
                  ELSE Fail(entries.err)

(***************************************************************************)
(* HashingTree::create_hashed_tree                                         *)
(***************************************************************************)
HashedNodeNew(node, hash) == [kind |-> node.kind, hash |-> hash, inner |-> node.inner]

StackEntry(hashed_node, other_idx, parent_idx) ==
    [hashed_node |-> hashed_node, other_idx |-> other_idx, parent_idx |-> parent_idx]

\* dfspo.next() returns None: compute_hashes returns Ok(()) and
\* create_hashed_tree sets up its graph and pushes the root's entry
CreateHashedTreeBegin ==
    /\ pc = "hashing"
    /\ UNCHANGED <<schematic, cyclone_vars>>
    /\ DfsPostOrderNext(dfspo, graph).node = 0
    /\ IF root_idx \in DOMAIN hashes
       THEN /\ pc' = "emit"
            /\ dfspo' = NoDfs
            /\ hgraph' = GraphNew
            /\ hroot_idx' = 0
            /\ hstack' = <<StackEntry(HashedNodeNew(graph.nodes[root_idx], hashes[root_idx]),
                                      root_idx, 0)>>
            /\ UNCHANGED <<run, input, stack, graph, root_idx, hashes, tree, err,
                           verdict, prev>>
       ELSE Fail(<<"UnhashedNode", InnerName(graph.nodes[root_idx].inner)>>)

\* each child pushed with the hash of the node it hangs under
PushHashedChildrenParentHash(stk, g, hs, other_idx, node_idx) ==
    LET ns == Neighbors(g.edges, other_idx)
    IN  stk \o [i \in 1..Len(ns) |->
                  StackEntry(HashedNodeNew(g.nodes[ns[i]], hs[other_idx]), ns[i], node_idx)]

\* for other_child_idx in self.graph.neighbors_directed(entry.other_idx, Outgoing)
\*     { stack.push(StackEntry {..}) }
PushHashedChildren(stk, g, hs, other_idx, node_idx) ==
    LET ns == Neighbors(g.edges, other_idx)
    IN  stk \o [i \in 1..Len(ns) |->
                  StackEntry(HashedNodeNew(g.nodes[ns[i]], hs[ns[i]]), ns[i], node_idx)]

\* one iteration of `while let Some(entry) = stack.pop()`
CreateHashedTreeStep ==
    /\ pc = "emit"
    /\ UNCHANGED <<schematic, cyclone_vars>>
    /\ hstack /= <<>>
    /\ LET entry == hstack[Len(hstack)]
           popped == SubSeq(hstack, 1, Len(hstack) - 1)
           g1 == AddNode(hgraph, entry.hashed_node)
           node_idx == Len(g1.nodes)
           ns == Neighbors(graph.edges, entry.other_idx)
           missing == {i \in 1..Len(ns) : ns[i] \notin DOMAIN hashes}
       IN  IF entry.parent_idx = 0 /\ hroot_idx /= 0
           THEN Fail("MultipleRootNode")
           ELSE IF missing /= {}
           THEN LET first == CHOOSE i \in missing : \A j \in missing : i <= j
                IN  Fail(<<"UnhashedNode", InnerName(graph.nodes[ns[first]].inner)>>)
           ELSE /\ hgraph' = IF entry.parent_idx /= 0
                             THEN AttachHashedChild(g1, entry.parent_idx, node_idx)
                             ELSE g1
                /\ hroot_idx' = IF entry.parent_idx /= 0 THEN hroot_idx ELSE node_idx
                /\ hstack' = PushHashedChildren(popped, graph, hashes, entry.other_idx,
                                                node_idx)
                /\ UNCHANGED <<run, pc, input, stack, graph, root_idx, hashes, dfspo,
                               tree, err, verdict, prev>>

ObjectTreeNew(g, r) == [graph |-> g, root_idx |-> r]

\* match root_idx { Some(root_idx) => Ok(ObjectTree { graph, root_idx }), .. }
CreateHashedTreeEnd ==
    /\ pc = "emit"
    /\ UNCHANGED <<schematic, cyclone_vars>>
    /\ hstack = <<>>
    /\ IF hroot_idx /= 0
       THEN /\ pc' = "hashed"
            /\ tree' = ObjectTreeNew(hgraph, hroot_idx)
            /\ DropLocals
            /\ UNCHANGED <<run, input, err, verdict, prev>>
       ELSE Fail("MissingRootNode")

(***************************************************************************)
(* Hashed nodes with entries, and VerifyHash.                              *)
(***************************************************************************)
\* impl From<HashedNode<T>> for NodeEntry
NodeEntryFrom(hashed_node) ==
    NodeEntryNew(hashed_node.kind, hashed_node.hash, InnerName(hashed_node.inner))

\* HashedNodeWithEntries::new
HashedNodeWithEntriesNew(hashed_node, entries) ==
    [kind |-> hashed_node.kind, hash |-> hashed_node.hash,
     inner |-> hashed_node.inner, entries |-> entries]

\* VerifyHash::verify_hash for HashedNodeWithEntries
verify_hash(self) ==
    LET bytes == ToBytes(self.kind, self.inner, self.entries)
        computed == HashNew(bytes)
    IN  IF self.hash = computed THEN Ok(<<>>)
        ELSE Err(<<"Verify", self.hash, computed>>)

\* the entries of the direct children of node i of an ObjectTree, in the
\* order as_petgraph().neighbors_directed(i, Outgoing) gives them
TreeEntries(t, i) ==
    LET ns == Neighbors(t.graph.edges, i)
    IN  [j \in 1..Len(ns) |-> NodeEntryFrom(t.graph.nodes[ns[j]])]

TreeNodeWithEntries(t, i) == HashedNodeWithEntriesNew(t.graph.nodes[i], TreeEntries(t, i))

TreeNodes(t) == 1..Len(t.graph.nodes)

\* a verification that takes the tree by value: the caller is left without it
VerifyNodeTakingTree ==
    /\ pc = "hashed"
    /\ UNCHANGED <<schematic, cyclone_vars>>
    /\ \E i \in TreeNodes(tree) :
         verdict' = [op |-> "verify", node |-> i,
                     result |-> verify_hash(TreeNodeWithEntries(tree, i))]
    /\ pc' = "verified"
    /\ tree' = NoTree
    /\ UNCHANGED <<run, input, stack, graph, root_idx, hashes, dfspo, hgraph,
                   hroot_idx, hstack, err, prev>>

\* the caller wraps a node of the tree with its children's entries and
\* verifies it
VerifyNode ==
    /\ pc = "hashed"
    /\ UNCHANGED <<schematic, cyclone_vars>>
    /\ \E i \in TreeNodes(tree) :
         verdict' = [op |-> "verify", node |-> i,
                     result |-> verify_hash(TreeNodeWithEntries(tree, i))]
    /\ pc' = "verified"
    /\ UNCHANGED <<run, input, stack, graph, root_idx, hashes, dfspo, hgraph,
                   hroot_idx, hstack, tree, err, prev>>

\* HashedNodeWithEntries::write_bytes into a fresh buffer
HashedNodeWithEntriesToBytes(self) == ToBytes(self.kind, self.inner, self.entries)

\* write a hashed node with its entries, read the bytes back, attach the
\* stored hash, write and verify again
RoundTrip(self) ==
    Let(HashedNodeWithEntriesToBytes(self), LAMBDA bytes :
    Let(FromBytes(bytes), LAMBDA read :
        LET back == from_node_with_entries_and_hash(read.val, self.hash)
        IN  [op |-> "roundtrip",
             bytes |-> bytes,
             read |-> read.ok,
             rewritten |-> IF read.ok THEN HashedNodeWithEntriesToBytes(back) ELSE <<>>,
             result |-> IF read.ok THEN verify_hash(back) ELSE read]))

RoundTripNode ==
    /\ pc = "hashed"
    /\ UNCHANGED <<schematic, cyclone_vars>>
    /\ \E i \in TreeNodes(tree) :
         verdict' = [node |-> i] @@ RoundTrip(TreeNodeWithEntries(tree, i))
    /\ pc' = "verified"
    /\ UNCHANGED <<run, input, stack, graph, root_idx, hashes, dfspo, hgraph,
                   hroot_idx, hstack, tree, err, prev>>

\* a hashed node with entries after one change that keeps the stored hash:
\* to the payload's fields, or to one field of one child entry
Tamperings(self, other_hashes) ==
    { [self EXCEPT !.inner.payload = v] : v \in PayloadValues \ {self.inner.payload} }
    \cup { [self EXCEPT !.inner.name = nm] : nm \in Names \ {self.inner.name} }
    \cup UNION { { [self EXCEPT !.entries[j].kind = k] :
                     k \in NodeKind \ {self.entries[j].kind} }
                 \cup { [self EXCEPT !.entries[j].name = nm] :
                          nm \in Names \ {self.entries[j].name} }
                 \cup { [self EXCEPT !.entries[j].hash = h] :
                          h \in other_hashes \ {self.entries[j].hash} } :
                 j \in 1..Len(self.entries) }

TamperNode ==
    /\ pc = "hashed"
    /\ UNCHANGED <<schematic, cyclone_vars>>
    /\ \E i \in TreeNodes(tree) :
         \E tampered \in Tamperings(TreeNodeWithEntries(tree, i),
                                    {tree.graph.nodes[i].hash, HashNew(<<>>)}) :
            verdict' = [op |-> "tamper", node |-> i, stored |-> tree.graph.nodes[i].hash,
                        subject |-> tampered, result |-> verify_hash(tampered)]
    /\ pc' = "verified"
    /\ UNCHANGED <<run, input, stack, graph, root_idx, hashes, dfspo, hgraph,
                   hroot_idx, hstack, tree, err, prev>>

\* the caller keeps the first ObjectTree and calls create_from_root again,
\* on the same tree, on a permutation of it or on a changed one
SecondCall ==
    /\ pc \in {"hashed", "verified"}
    /\ UNCHANGED <<schematic, cyclone_vars>>
    /\ run = 1
    /\ run' = 2
    /\ pc' = "start"
    /\ prev' = [input |-> input, tree |-> tree]
    /\ input' \in SecondInputs(input)
    /\ tree' = NoTree
    /\ verdict' = NoVerdict
    /\ UNCHANGED <<stack, graph, root_idx, hashes, dfspo, hgraph, hroot_idx, hstack, err>>

Next ==
    \/ CreateFromRootBegin
    \/ CreateFromRootStep
    \/ CreateFromRootEnd
    \/ HashTreeBegin
    \/ ComputeHashesStep
    \/ CreateHashedTreeBegin
    \/ CreateHashedTreeStep
    \/ CreateHashedTreeEnd
    \/ VerifyNode
    \/ RoundTripNode
    \/ TamperNode
    \/ SecondCall

Spec == Init /\ [][Next]_vars

\* the passes of create_from_root are straight-line loops: a call that has
\* a step to take takes it
CreateFromRootCall ==
    \/ CreateFromRootBegin
    \/ CreateFromRootStep
    \/ CreateFromRootEnd
    \/ HashTreeBegin
    \/ ComputeHashesStep
    \/ CreateHashedTreeBegin
    \/ CreateHashedTreeStep
    \/ CreateHashedTreeEnd

LiveSpec == Spec /\ WF_vars(CreateFromRootCall)

(***************************************************************************)
(* HashingTree::create_from_root on its own, on deeper input trees.        *)
(***************************************************************************)
RECURSIVE BuildTreesOfSize(_), BuildForests(_)
BuildTreesOfSize(n) ==
    { NodeWithChildrenNew(Tree, InnerNew(nm, "prop", "x"), f) :
        nm \in Names, f \in BuildForests(n - 1) }
BuildForests(m) ==
    IF m = 0 THEN {<<>>}
    ELSE UNION { { <<t>> \o f : t \in BuildTreesOfSize(k), f \in BuildForests(m - k) } :
                 k \in 1..m }

BuildInputs == UNION { BuildTreesOfSize(n) : n \in 1..MaxBuildNodes }

BuildInit ==
    /\ schematic = NoSchematic
    /\ NoExecution
    /\ run = 1
    /\ pc = "start"
    /\ input \in BuildInputs
    /\ stack = <<>>
    /\ graph = GraphNew
    /\ root_idx = 0
    /\ hashes = <<>>
    /\ dfspo = NoDfs
    /\ hgraph = GraphNew
    /\ hroot_idx = 0
    /\ hstack = <<>>
    /\ tree = NoTree
    /\ err = "none"
    /\ verdict = NoVerdict
    /\ prev = NoPrev

BuildNext ==
    \/ CreateFromRootBegin
    \/ CreateFromRootStep
    \/ CreateFromRootEnd

BuildSpec == BuildInit /\ [][BuildNext]_vars

(***************************************************************************)
(* SchemaVariantChildNode (lib/si-pkg/src/node/schema_variant_child.rs):   *)
(* a payload type whose serialization is one `kind=<kind_str>` line.       *)
(***************************************************************************)
VARIANT_CHILD_TYPE_COMMAND_FUNCS == "command_funcs"
VARIANT_CHILD_TYPE_DOMAIN == "domain"
VARIANT_CHILD_TYPE_FUNC_DESCRIPTIONS == "func_descriptions"
VARIANT_CHILD_TYPE_LEAF_FUNCTIONS == "leaf_functions"
VARIANT_CHILD_TYPE_RESOURCE_VALUE == "resource_value"
VARIANT_CHILD_TYPE_SI_PROP_FUNCS == "si_prop_funcs"
VARIANT_CHILD_TYPE_SOCKETS == "sockets"
VARIANT_CHILD_TYPE_WORKFLOWS == "workflows"

KEY_KIND_STR == "kind"

SchemaVariantChildNode ==
    {"CommandFuncs", "Domain", "FuncDescriptions", "LeafFunctions", "ResourceValue",
     "SiPropFuncs", "Sockets", "Workflows"}

\* an arm copied from its neighbour and left unchanged
kind_str_copied_arm(self) ==
    CASE self = "CommandFuncs" -> VARIANT_CHILD_TYPE_COMMAND_FUNCS
      [] self = "Domain" -> VARIANT_CHILD_TYPE_DOMAIN
      [] self = "FuncDescriptions" -> VARIANT_CHILD_TYPE_FUNC_DESCRIPTIONS
      [] self = "LeafFunctions" -> VARIANT_CHILD_TYPE_LEAF_FUNCTIONS
      [] self = "ResourceValue" -> VARIANT_CHILD_TYPE_DOMAIN
      [] self = "SiPropFuncs" -> VARIANT_CHILD_TYPE_SI_PROP_FUNCS
      [] self = "Sockets" -> VARIANT_CHILD_TYPE_SOCKETS
      [] self = "Workflows" -> VARIANT_CHILD_TYPE_WORKFLOWS

kind_str(self) ==
    CASE self = "CommandFuncs" -> VARIANT_CHILD_TYPE_COMMAND_FUNCS
      [] self = "Domain" -> VARIANT_CHILD_TYPE_DOMAIN
      [] self = "FuncDescriptions" -> VARIANT_CHILD_TYPE_FUNC_DESCRIPTIONS
      [] self = "LeafFunctions" -> VARIANT_CHILD_TYPE_LEAF_FUNCTIONS
      [] self = "ResourceValue" -> VARIANT_CHILD_TYPE_RESOURCE_VALUE
      [] self = "SiPropFuncs" -> VARIANT_CHILD_TYPE_SI_PROP_FUNCS
      [] self = "Sockets" -> VARIANT_CHILD_TYPE_SOCKETS
      [] self = "Workflows" -> VARIANT_CHILD_TYPE_WORKFLOWS

\* impl WriteBytes for SchemaVariantChildNode
SchemaVariantChildNodeWriteBytes(writer, self) ==
    write_key_value_line(writer, KEY_KIND_STR, <<kind_str(self)>>)

\* impl ReadBytes for SchemaVariantChildNode: the result and the reader after it
SchemaVariantChildNodeReadBytes(reader) ==
    Let(read_key_value_line(reader, KEY_KIND_STR), LAMBDA kind :
        IF ~kind.res.ok THEN kind
        ELSE [res |-> CASE kind.res.val = <<VARIANT_CHILD_TYPE_COMMAND_FUNCS>>
                             -> Ok("CommandFuncs")
                        [] kind.res.val = <<VARIANT_CHILD_TYPE_DOMAIN>>
                             -> Ok("Domain")
                        [] kind.res.val = <<VARIANT_CHILD_TYPE_FUNC_DESCRIPTIONS>>
                             -> Ok("FuncDescriptions")
                        [] kind.res.val = <<VARIANT_CHILD_TYPE_LEAF_FUNCTIONS>>
                             -> Ok("LeafFunctions")
                        [] kind.res.val = <<VARIANT_CHILD_TYPE_RESOURCE_VALUE>>
                             -> Ok("ResourceValue")
                        [] kind.res.val = <<VARIANT_CHILD_TYPE_SI_PROP_FUNCS>>
                             -> Ok("SiPropFuncs")
                        [] kind.res.val = <<VARIANT_CHILD_TYPE_SOCKETS>>
                             -> Ok("Sockets")
                        [] kind.res.val = <<VARIANT_CHILD_TYPE_WORKFLOWS>>
                             -> Ok("Workflows")
                        [] OTHER
                             -> Err(<<"ParseCustom", "invalid schema variant child kind",
                                      kind.res.val>>),
              rest |-> kind.rest])

(***************************************************************************)
(* The codec used on its own: a node handed to the writer, bytes handed    *)
(* to the reader.  The bytes are any bytes: every line is drawn from a set *)
(* that holds the well-formed line and malformed ones.                     *)
(***************************************************************************)
CodecHash1 == HashNew(<<"1">>)
CodecHash2 == HashNew(<<"2">>)

CodecEntries ==
    {NodeEntryNew(Leaf, CodecHash1, <<"a">>),
     NodeEntryNew(Tree, CodecHash2, <<"a">>),
     NodeEntryNew(Tree, CodecHash1, <<"B">>),
     NodeEntryNew(Leaf, CodecHash1, <<"a", "b">>),
     NodeEntryNew(Tree, CodecHash2, <<"b">>)}

RECURSIVE EntryLists(_)
EntryLists(n) ==
    IF n = 0 THEN {<<>>}
    ELSE EntryLists(n - 1)
         \cup { Append(l, e) : l \in {x \in EntryLists(n - 1) : Len(x) = n - 1},
                               e \in CodecEntries }

WriterInputs ==
    { [op |-> "write", kind |-> k, inner |-> InnerNew(<<"a">>, o, "x"), entries |-> es] :
        k \in NodeKind, o \in ObjectKinds, es \in EntryLists(MaxEntries) }

VersionLines ==
    {<<"version", EQ, "1", NL>>, <<"version", EQ, "1", SP, NL>>,
     <<"version", EQ, "2", NL>>, <<"version", EQ, "2", SP, NL>>,
     <<"version", EQ, NL>>, <<"version", EQ, SP, "1", NL>>,
     <<"version", NL>>, <<"node_kind", EQ, "1", NL>>}

NodeKindLines ==
    {<<"node_kind", EQ, "leaf", NL>>, <<"node_kind", EQ, "tree", NL>>,
     <<"node_kind", EQ, "2", NL>>, <<"tree", NL>>}

ObjectKindLines ==
    {<<"object_kind", EQ, "prop", NL>>, <<"object_kind", EQ, "schema_variant_child", NL>>,
     <<"kind", EQ, "prop", NL>>}

BlankLines == {<<NL>>, <<"x", NL>>}

PayloadLines ==
    {<<"name", EQ, "a", NL, "payload", EQ, "x", NL>>, <<"name", EQ, "a", NL>>,
     <<"payload", EQ, "x", NL>>}

EntryBlocks ==
    {<<>>,
     <<NL, "leaf", SP, CodecHash1, SP, "a", NL>>,
     <<NL, "leaf", SP, CodecHash1, SP, "a", NL, "tree", SP, CodecHash2, SP, "b", NL>>,
     <<"leaf", SP, CodecHash1, SP, "a", NL>>,
     <<NL, "tree", SP, CodecHash1, NL>>,
     <<NL, "tree", NL>>,
     <<NL, "2", SP, CodecHash1, SP, "a", NL>>,
     <<NL, "tree", SP, "x", SP, "a", NL>>,
     <<NL, "leaf", SP, CodecHash1, SP, "a", NL, "tree", SP, CodecHash2, NL,
       "tree", SP, CodecHash2, SP, "b", NL>>}

ReaderInputs ==
    { [op |-> "read", bytes |-> v \o k \o o \o b \o p \o e] :
        v \in VersionLines, k \in NodeKindLines, o \in ObjectKindLines,
        b \in BlankLines, p \in PayloadLines, e \in EntryBlocks }

SchemaVariantChildInputs ==
    { [op |-> "svc_write", node |-> n] : n \in SchemaVariantChildNode }
    \cup { [op |-> "svc_read", bytes |-> b \o t] :
             b \in { <<KEY_KIND_STR, EQ, kind_str(n), NL>> : n \in SchemaVariantChildNode }
                   \cup {<<KEY_KIND_STR, EQ, "x", NL>>, <<KEY_KIND_STR, EQ, NL>>,
                         <<KEY_KIND_STR, NL>>, <<"name", EQ, VARIANT_CHILD_TYPE_DOMAIN, NL>>,
                         <<KEY_KIND_STR, EQ, "Domain", NL>>},
             t \in {<<>>, <<NL>>} }

\* lines handed to read_key_value_line with the key it is to expect, and
\* what follows them in the reader
KeyValueLines ==
    {<<"version", EQ, "1", NL>>, <<"version", EQ, "1">>, <<"version", EQ, "1", SP, NL>>,
     <<"version", EQ, "1", "\t", NL>>, <<"version", EQ, "1", "\r", NL>>,
     <<"version", EQ, SP, "1", NL>>, <<"version", EQ, "a", EQ, "b", NL>>,
     <<"version", EQ, EQ, NL>>, <<"version", EQ, NL>>, <<"version", SP, EQ, "1", NL>>,
     <<EQ, "1", NL>>, <<"version", NL>>, <<"version", SP, "1", NL>>,
     <<"name", EQ, "1", NL>>, <<NL>>, <<>>}

KeyValueInputs ==
    { [op |-> "kv_read", key |-> KEY_VERSION_STR,
       bytes |-> IF l /= <<>> /\ l[Len(l)] = NL THEN l \o t ELSE l] :
        l \in KeyValueLines, t \in {<<>>, <<"x", NL>>} }

\* lines handed to read_empty_line, and what follows them in the reader
EmptyLineInputs ==
    { [op |-> "blank_read",
       bytes |-> IF l /= <<>> /\ l[Len(l)] = NL THEN l \o t ELSE l] :
        l \in {<<NL>>, <<SP, NL>>, <<"\t", NL>>, <<"\r", NL>>, <<SP, SP, NL>>, <<>>,
               <<"x", NL>>, <<SP, "x", NL>>, <<"x", SP, NL>>, <<"x">>, <<EQ, NL>>},
        t \in {<<>>, <<"x", NL>>, <<NL>>} }

\* entry lines: the lines the writer writes for an entry, and lines it
\* never writes
MalformedEntryLines ==
    {<<"tree", SP, CodecHash1>>, <<"leaf", SP, CodecHash2>>, <<"tree">>,
     <<"2", SP, CodecHash1, SP, "a">>, <<"tree", SP, "x", SP, "a">>, <<>>,
     <<"tree", SP, CodecHash1, SP, "a", SP, "b">>}

EntryLineChoices ==
    { [entry |-> <<e>>, line |-> NodeEntryWriteBytes(<<>>, e)] : e \in CodecEntries }
    \cup { [entry |-> <<>>, line |-> l \o <<NL>>] : l \in MalformedEntryLines }

RECURSIVE EntryLineLists(_)
EntryLineLists(n) ==
    IF n = 0 THEN {<<>>}
    ELSE EntryLineLists(n - 1)
         \cup { Append(l, c) : l \in {x \in EntryLineLists(n - 1) : Len(x) = n - 1},
                               c \in EntryLineChoices }

RECURSIVE ConcatLines(_)
ConcatLines(ls) == IF ls = <<>> THEN <<>> ELSE Head(ls).line \o ConcatLines(Tail(ls))

EntryLinesInputs ==
    { [op |-> "entries_read", lines |-> ls, bytes |-> ConcatLines(ls)] :
        ls \in EntryLineLists(MaxEntryLines) }

CodecInputs ==
    WriterInputs \cup ReaderInputs \cup SchemaVariantChildInputs
    \cup KeyValueInputs \cup EmptyLineInputs \cup EntryLinesInputs

CodecInit ==
    /\ schematic = NoSchematic
    /\ NoExecution
    /\ run = 1
    /\ pc = "codec"
    /\ input \in CodecInputs
    /\ stack = <<>>
    /\ graph = GraphNew
    /\ root_idx = 0
    /\ hashes = <<>>
    /\ dfspo = NoDfs
    /\ hgraph = GraphNew
    /\ hroot_idx = 0
    /\ hstack = <<>>
    /\ tree = NoTree
    /\ err = "none"
    /\ verdict = NoVerdict
    /\ prev = NoPrev

\* NodeWithEntriesRef::new(kind, &inner, &entries).to_bytes()
CodecWrite ==
    /\ pc = "codec"
    /\ UNCHANGED <<schematic, cyclone_vars>>
    /\ input.op = "write"
    /\ verdict' = [op |-> "write",
                   bytes |-> ToBytes(input.kind, input.inner, input.entries)]
    /\ pc' = "written"
    /\ UNCHANGED <<run, input, stack, graph, root_idx, hashes, dfspo, hgraph,
                   hroot_idx, hstack, tree, err, prev>>

\* NodeWithEntries::read_bytes on the bytes just written
CodecReadBack ==
    /\ pc = "written"
    /\ UNCHANGED <<schematic, cyclone_vars>>
    /\ verdict.op = "write"
    /\ verdict' = [op |-> "readback", bytes |-> verdict.bytes,
                   result |-> NodeWithEntriesReadBytes(verdict.bytes)]
    /\ pc' = "read"
    /\ UNCHANGED <<run, input, stack, graph, root_idx, hashes, dfspo, hgraph,
                   hroot_idx, hstack, tree, err, prev>>

\* NodeWithEntries::read_bytes on bytes from anywhere
CodecRead ==
    /\ pc = "codec"
    /\ UNCHANGED <<schematic, cyclone_vars>>
    /\ input.op = "read"
    /\ verdict' = [op |-> "read", bytes |-> input.bytes,
                   result |-> NodeWithEntriesReadBytes(input.bytes)]
    /\ pc' = "read"
    /\ UNCHANGED <<run, input, stack, graph, root_idx, hashes, dfspo, hgraph,
                   hroot_idx, hstack, tree, err, prev>>

\* the node read is given a hash, that of the bytes read or another one,
\* and verified
CodecVerify ==
    /\ pc = "read"
    /\ UNCHANGED <<schematic, cyclone_vars>>
    /\ verdict.op \in {"read", "readback"}
    /\ verdict.result.res.ok
    /\ \E hash \in {HashNew(verdict.bytes), HashNew(<<>>)} :
         verdict' = [op |-> "verify_read", bytes |-> verdict.bytes, hash |-> hash,
                     result |-> verify_hash(from_node_with_entries_and_hash(
                                                verdict.result.res.val, hash))]
    /\ pc' = "checked"
    /\ UNCHANGED <<run, input, stack, graph, root_idx, hashes, dfspo, hgraph,
                   hroot_idx, hstack, tree, err, prev>>

\* SchemaVariantChildNode::to_bytes
SchemaVariantChildWrite ==
    /\ pc = "codec"
    /\ UNCHANGED <<schematic, cyclone_vars>>
    /\ input.op = "svc_write"
    /\ verdict' = [op |-> "svc_write",
                   bytes |-> SchemaVariantChildNodeWriteBytes(<<>>, input.node)]
    /\ pc' = "written"
    /\ UNCHANGED <<run, input, stack, graph, root_idx, hashes, dfspo, hgraph,
                   hroot_idx, hstack, tree, err, prev>>

\* SchemaVariantChildNode::read_bytes on the bytes just written
SchemaVariantChildReadBack ==
    /\ pc = "written"
    /\ UNCHANGED <<schematic, cyclone_vars>>
    /\ verdict.op = "svc_write"
    /\ verdict' = [op |-> "svc_readback", bytes |-> verdict.bytes,
                   result |-> SchemaVariantChildNodeReadBytes(verdict.bytes)]
    /\ pc' = "read"
    /\ UNCHANGED <<run, input, stack, graph, root_idx, hashes, dfspo, hgraph,
                   hroot_idx, hstack, tree, err, prev>>

\* SchemaVariantChildNode::read_bytes on bytes from anywhere
SchemaVariantChildRead ==
    /\ pc = "codec"
    /\ UNCHANGED <<schematic, cyclone_vars>>
    /\ input.op = "svc_read"
    /\ verdict' = [op |-> "svc_read", bytes |-> input.bytes,
                   result |-> SchemaVariantChildNodeReadBytes(input.bytes)]
    /\ pc' = "read"
    /\ UNCHANGED <<run, input, stack, graph, root_idx, hashes, dfspo, hgraph,
                   hroot_idx, hstack, tree, err, prev>>

\* read_key_value_line(reader, key)
CodecReadKeyValueLine ==
    /\ pc = "codec"
    /\ UNCHANGED <<schematic, cyclone_vars>>
    /\ input.op = "kv_read"
    /\ verdict' = [op |-> "kv_read", bytes |-> input.bytes,
                   result |-> read_key_value_line(input.bytes, input.key)]
    /\ pc' = "read"
    /\ UNCHANGED <<run, input, stack, graph, root_idx, hashes, dfspo, hgraph,
                   hroot_idx, hstack, tree, err, prev>>

\* read_empty_line(reader)
CodecReadEmptyLine ==
    /\ pc = "codec"
    /\ UNCHANGED <<schematic, cyclone_vars>>
    /\ input.op = "blank_read"
    /\ verdict' = [op |-> "blank_read", bytes |-> input.bytes,
                   result |-> read_empty_line(input.bytes)]
    /\ pc' = "read"
    /\ UNCHANGED <<run, input, stack, graph, root_idx, hashes, dfspo, hgraph,
                   hroot_idx, hstack, tree, err, prev>>

\* read_node_entry_lines(reader)
CodecReadEntryLines ==
    /\ pc = "codec"
    /\ UNCHANGED <<schematic, cyclone_vars>>
    /\ input.op = "entries_read"
    /\ verdict' = [op |-> "entries_read", bytes |-> input.bytes,
                   result |-> read_node_entry_lines(input.bytes)]
    /\ pc' = "read"
    /\ UNCHANGED <<run, input, stack, graph, root_idx, hashes, dfspo, hgraph,
                   hroot_idx, hstack, tree, err, prev>>

CodecNext ==
    \/ CodecReadKeyValueLine
    \/ CodecReadEmptyLine
    \/ CodecReadEntryLines
    \/ CodecWrite
    \/ CodecReadBack
    \/ CodecRead
    \/ CodecVerify
    \/ SchemaVariantChildWrite
    \/ SchemaVariantChildReadBack
    \/ SchemaVariantChildRead

CodecSpec == CodecInit /\ [][CodecNext]_vars

\* the library as a whole: a caller builds trees or uses the codec on its own
LibInit == Init \/ CodecInit

LibNext == Next \/ CodecNext

LibSpec == LibInit /\ [][LibNext]_vars

(***************************************************************************)
(* What the claims speak of.                                               *)
(***************************************************************************)
RootHash(t) == t.graph.nodes[t.root_idx].hash

NodeBytes(t, i) == HashedNodeWithEntriesToBytes(TreeNodeWithEntries(t, i))

\* the two trees have the same serialized nodes, up to the order of the nodes
SameNodeBytes(t1, t2) ==
    /\ Len(t1.graph.nodes) = Len(t2.graph.nodes)
    /\ \E p \in Permutations(TreeNodes(t1)) :
         \A i \in TreeNodes(t1) : NodeBytes(t1, i) = NodeBytes(t2, p[i])

DistinctNames(children) ==
    \A i, j \in 1..Len(children) :
        i /= j => InnerName(children[i].inner) /= InnerName(children[j].inner)

\* the same tree with the children list of one node permuted, that node's
\* children having pairwise distinct names
RECURSIVE OneDistinctPermutation(_)
OneDistinctPermutation(t) ==
    LET n == Len(t.children)
    IN  (IF DistinctNames(t.children)
         THEN { [t EXCEPT !.children = [i \in 1..n |-> t.children[p[i]]]] :
                  p \in Permutations(1..n) }
         ELSE {t})
        \cup UNION { { [t EXCEPT !.children[j] = c] :
                         c \in OneDistinctPermutation(t.children[j]) } : j \in 1..n }

RECURSIVE SameShapeAndNames(_, _)
SameShapeAndNames(t1, t2) ==
    /\ InnerName(t1.inner) = InnerName(t2.inner)
    /\ Len(t1.children) = Len(t2.children)
    /\ \A j \in 1..Len(t1.children) : SameShapeAndNames(t1.children[j], t2.children[j])

\* the subtree below node i of an ObjectTree, without the hashes, the
\* children in the order their edges were added
RECURSIVE SubtreeOf(_, _)
SubtreeOf(t, i) ==
    LET ns == Neighbors(t.graph.edges, i)
    IN  [kind |-> t.graph.nodes[i].kind,
         inner |-> t.graph.nodes[i].inner,
         children |-> [k \in 1..Len(ns) |-> SubtreeOf(t, ns[Len(ns) + 1 - k])]]

\* the number of nodes of an input tree
RECURSIVE TreeSize(_), ForestSize(_)
TreeSize(t) == 1 + ForestSize(t.children)
ForestSize(f) == IF f = <<>> THEN 0 ELSE TreeSize(Head(f)) + ForestSize(Tail(f))

\* the edges of a graph as a set of pairs
EdgeSet(g) == {g.edges[k] : k \in 1..Len(g.edges)}

IsPrefix(p, t) == Len(p) <= Len(t) /\ SubSeq(t, 1, Len(p)) = p

\* x comes no later than y in byte-wise lexicographic order
BytewiseLeq(x, y) ==
    \E k \in 0..Len(x) :
        /\ k <= Len(y)
        /\ \A i \in 1..k : x[i] = y[i]
        /\ \/ k = Len(x)
           \/ (k < Len(y) /\ ByteVal(x[k + 1]) < ByteVal(y[k + 1]))

\* the lines of a serialized node that follow the header, the payload and
\* the blank line after it
EntryLinesOf(bytes) == SubSeq(Lines(bytes), 8, Len(Lines(bytes)))

\* the name field of an entry line `KIND HASH NAME`
EntryLineName(line) == SubSeq(line, 5, Len(line))

\* the n-th line of the bytes, trailing white space and newline removed
RECURSIVE NthLine(_, _)
NthLine(bytes, n) ==
    IF n = 1 THEN TrimEnd(ReadLine(bytes).line)
    ELSE NthLine(ReadLine(bytes).rest, n - 1)

\* the first two header lines are a version line of value 1 and a
\* node_kind line of a known kind, the third is an object_kind line
HeaderValid(bytes) ==
    /\ NthLine(bytes, 1) = <<KEY_VERSION_STR, EQ, VAL_VERSION_STR>>
    /\ NthLine(bytes, 2) \in {<<KEY_NODE_KIND_STR, EQ, "leaf">>,
                               <<KEY_NODE_KIND_STR, EQ, "tree">>}
    /\ IsPrefix(<<KEY_OBJECT_KIND_STR, EQ>>, NthLine(bytes, 3))

HeaderObjectKind(bytes) == SubSeq(NthLine(bytes, 3), 3, Len(NthLine(bytes, 3)))

ObjectKindRejected(res) ==
    ~res.ok /\ res.err = <<"ParseCustom", "expected object kind to be prop">>

GraphErrorKinds ==
    {"InvalidNodeVersion", "IoRead", "IoWrite", "MissingRootNode", "MultipleRootNode",
     "Parse", "ParseCustom", "ParseLineBlank", "ParseLineExpectedKey",
     "ParseLineKeyValueFormat", "UnhashedChild", "UnhashedNode", "Verify"}

\* a result is a whole value or one GraphError, never both
OkOrGraphError(res) ==
    \/ res.ok /\ DOMAIN res = {"ok", "val"}
    \/ ~res.ok /\ DOMAIN res = {"ok", "err"} /\ res.err[1] \in GraphErrorKinds

\* the node read has all its parts and, for a tree, one entry for every
\* line of the entry block
CompleteNode(node, bytes) ==
    /\ DOMAIN node = {"kind", "inner", "entries"}
    /\ node.kind \in NodeKind
    /\ DOMAIN node.inner = {"name", "object_kind", "payload"}
    /\ \A i \in 1..Len(node.entries) :
          /\ DOMAIN node.entries[i] = {"kind", "hash", "name"}
          /\ node.entries[i].kind \in NodeKind
    /\ node.kind = Tree => Len(node.entries) = Len(EntryLinesOf(bytes))

VersionValues == {<<"1">>, <<"1", SP>>, <<"2">>, <<"2", SP>>, <<>>, <<SP, "1">>}

VersionLine(v) == write_key_value_line(<<>>, KEY_VERSION_STR, v)

\* the nodes of an input tree in depth-first pre-order
RECURSIVE Preorder(_), ForestPreorder(_)
Preorder(t) == <<[kind |-> t.kind, inner |-> t.inner]>> \o ForestPreorder(t.children)
ForestPreorder(f) ==
    IF f = <<>> THEN <<>> ELSE Preorder(Head(f)) \o ForestPreorder(Tail(f))

\* for each node of an input tree, in pre-order, the pre-order index of its
\* parent; the tree's own root has index idx and parent `parent`
RECURSIVE ParentsOf(_, _, _), ForestParents(_, _, _)
ParentsOf(t, idx, parent) == <<parent>> \o ForestParents(t.children, idx + 1, idx)
ForestParents(f, idx, parent) ==
    IF f = <<>> THEN <<>>
    ELSE ParentsOf(Head(f), idx, parent)
         \o ForestParents(Tail(f), idx + TreeSize(Head(f)), parent)

\* the edges of the input tree, parent to child, in pre-order of the child
PreorderEdges(t) ==
    [k \in 1..(TreeSize(t) - 1) |-> <<ParentsOf(t, 1, 0)[k + 1], k + 1>>]

\* the nodes a graph reaches from the nodes of `seen`
RECURSIVE ReachableFrom(_, _)
ReachableFrom(g, seen) ==
    LET more == seen \cup {g.edges[k][2] : k \in {j \in 1..Len(g.edges) : g.edges[j][1] \in seen}}
    IN  IF more = seen THEN seen ELSE ReachableFrom(g, more)

\* a line as read_line returns it, without its newline and nothing else
ChopNewline(line) ==
    IF line /= <<>> /\ line[Len(line)] = NL THEN SubSeq(line, 1, Len(line) - 1) ELSE line

\* what the reading of a key/value line is to give, the line having been
\* stripped to `text` first
KeyValueOutcome(text, raw, key) ==
    IF IndexOf(text, EQ) = 0 THEN Err(<<"ParseLineKeyValueFormat", raw>>)
    ELSE IF SubSeq(text, 1, IndexOf(text, EQ) - 1) = <<key>>
    THEN Ok(SubSeq(text, IndexOf(text, EQ) + 1, Len(text)))
    ELSE Err(<<"ParseLineExpectedKey", key, SubSeq(text, 1, IndexOf(text, EQ) - 1)>>)

\* the first line of `ls` that is not a line the writer writes, or 0
FirstMalformed(ls) ==
    IF \A k \in 1..Len(ls) : ls[k].entry /= <<>> THEN 0
    ELSE CHOOSE k \in 1..Len(ls) :
            ls[k].entry = <<>> /\ \A j \in 1..(k - 1) : ls[j].entry /= <<>>

\* the error a malformed entry line is to give
MalformedEntryLineError(line) ==
    IF line \in {<<"tree", SP, CodecHash1, NL>>, <<"leaf", SP, CodecHash2, NL>>}
    THEN <<"ParseCustom", "missing name field in entry line">>
    ELSE IF line = <<"tree", NL>>
    THEN <<"ParseCustom", "missing hash field in entry line">>
    ELSE IF line = <<"tree", SP, "x", SP, "a", NL>> THEN <<"Parse", "InvalidHash">>
    ELSE <<"Parse", "VariantNotFound">>

\* the serialized form is one the wire format allows: only a tree carries
\* an entry block
ValidRepresentation(self) == self.kind = Tree \/ self.entries = <<>>

\* where the value of the node_kind line sits in a serialized node
NodeKindValuePos ==
    Len(write_key_value_line(<<>>, KEY_VERSION_STR, <<VAL_VERSION_STR>>)) + 3

(***************************************************************************)
(* C1: every node of the ObjectTree that create_from_root returns carries  *)
(* the hash of its canonical bytes, written with the entries of its direct *)
(* children: verify_hash of the node wrapped with those entries is Ok.     *)
(***************************************************************************)
C1_NodeHashesVerify ==
    /\ pc = "hashed" =>
         \A i \in TreeNodes(tree) :
            /\ tree.graph.nodes[i].hash
                 = HashNew(ToBytes(tree.graph.nodes[i].kind, tree.graph.nodes[i].inner,
                                   TreeEntries(tree, i)))
            /\ verify_hash(TreeNodeWithEntries(tree, i)).ok
    /\ verdict.op = "verify" => verdict.result.ok

C1_Witness ==
    /\ pc = "verified"
    /\ verdict.op = "verify"
    /\ verdict.result.ok
    /\ Len(TreeEntries(tree, verdict.node)) >= 2

(***************************************************************************)
(* C2: permuting the children list of any node of the input leaves the     *)
(* root hash and the serialized bytes of every node unchanged.  As stated, *)
(* for every input tree:                                                   *)
(***************************************************************************)
C2_AnyPermutation ==
    (run = 2 /\ pc = "hashed" /\ input \in OnePermutation(prev.input))
    => /\ RootHash(tree) = RootHash(prev.tree)
       /\ SameNodeBytes(tree, prev.tree)

(***************************************************************************)
(* C2, amended: permuting the children list of a node whose children have  *)
(* pairwise distinct names leaves the root hash and the serialized bytes   *)
(* of every node unchanged.                                                *)
(***************************************************************************)
C2_DistinctNamesPermutation ==
    (run = 2 /\ pc = "hashed" /\ input \in OneDistinctPermutation(prev.input))
    => /\ RootHash(tree) = RootHash(prev.tree)
       /\ SameNodeBytes(tree, prev.tree)

C2_Witness ==
    /\ run = 2
    /\ pc = "hashed"
    /\ input \in OneDistinctPermutation(prev.input)
    /\ input /= prev.input
    /\ RootHash(tree) = RootHash(prev.tree)

C4_AnyValidRoundTrip ==
    (verdict.op = "roundtrip"
        /\ ValidRepresentation(TreeNodeWithEntries(tree, verdict.node)))
    => /\ verdict.read
       /\ verdict.rewritten = verdict.bytes

(***************************************************************************)
(* C4, amended: reading a valid serialized node whose object_kind is       *)
(* `prop` and writing the result again gives the bytes that were read.     *)
(***************************************************************************)
C4_PropRoundTrip ==
    (verdict.op = "roundtrip"
        /\ ValidRepresentation(TreeNodeWithEntries(tree, verdict.node))
        /\ InnerObjectKind(tree.graph.nodes[verdict.node].inner) = "prop")
    => /\ verdict.read
       /\ verdict.rewritten = verdict.bytes

C4_Witness ==
    /\ verdict.op = "roundtrip"
    /\ tree.graph.nodes[verdict.node].kind = Tree
    /\ Len(TreeEntries(tree, verdict.node)) >= 2
    /\ InnerObjectKind(tree.graph.nodes[verdict.node].inner) = "prop"
    /\ verdict.read
    /\ verdict.rewritten = verdict.bytes

(***************************************************************************)
(* C5: for every node of an ObjectTree, the node written with its child    *)
(* entries, read back and given its stored hash verifies: the read         *)
(* succeeds and verify_hash returns Ok.                                    *)
(***************************************************************************)
C5_ReadBackVerifies ==
    verdict.op = "roundtrip" => (verdict.read /\ verdict.result.ok)

(***************************************************************************)
(* C6: a hashed node with entries whose stored hash is correct, after a    *)
(* change to its payload or to the kind, hash or name of one child entry,  *)
(* fails verify_hash with Verify(expected, computed): expected is the      *)
(* stored hash, computed the hash of the changed bytes, and they differ.   *)
(***************************************************************************)
C6_TamperDetected ==
    (verdict.op = "tamper" /\ verify_hash(TreeNodeWithEntries(tree, verdict.node)).ok)
    => /\ ~verdict.result.ok
       /\ verdict.result.err[1] = "Verify"
       /\ verdict.result.err[2] = verdict.stored
       /\ verdict.result.err[3] = HashNew(HashedNodeWithEntriesToBytes(verdict.subject))
       /\ verdict.result.err[2] /= verdict.result.err[3]

C6_Witness ==
    /\ verdict.op = "tamper"
    /\ verdict.subject.entries /= TreeEntries(tree, verdict.node)
    /\ ~verdict.result.ok
    /\ verdict.result.err[1] = "Verify"

(***************************************************************************)
(* C7: for two inputs of the same shape and names, the nodes at the same   *)
(* place have equal hashes exactly when the subtrees below them are equal  *)
(* in every kind and payload: a difference anywhere below a node changes   *)
(* the hash of that node and of each of its ancestors up to the root.      *)
(***************************************************************************)
C7_HashCoversSubtree ==
    (run = 2 /\ pc = "hashed" /\ SameShapeAndNames(prev.input, input))
    => \A i \in TreeNodes(tree) :
          (SubtreeOf(tree, i) = SubtreeOf(prev.tree, i))
          <=> (tree.graph.nodes[i].hash = prev.tree.graph.nodes[i].hash)

C7_Witness ==
    /\ run = 2
    /\ pc = "hashed"
    /\ SameShapeAndNames(prev.input, input)
    /\ tree.graph.edges = <<<<1, 2>>, <<2, 3>>>>
    /\ tree.graph.nodes[1] = [prev.tree.graph.nodes[1] EXCEPT !.hash = RootHash(tree)]
    /\ tree.graph.nodes[2] = [prev.tree.graph.nodes[2] EXCEPT
                                 !.hash = tree.graph.nodes[2].hash]
    /\ SubtreeOf(tree, 3) /= SubtreeOf(prev.tree, 3)
    /\ RootHash(tree) /= RootHash(prev.tree)

(***************************************************************************)
(* C8: a Leaf and a Tree with the same payload and no children serialize   *)
(* to bytes that differ in the value of the node_kind line, and only       *)
(* there, and so have distinct hashes.                                     *)
(***************************************************************************)
C8_LeafAndEmptyTreeDiffer ==
    pc = "hashed" =>
       \A i, j \in TreeNodes(tree) :
          (/\ tree.graph.nodes[i].kind = Leaf
           /\ tree.graph.nodes[j].kind = Tree
           /\ tree.graph.nodes[i].inner = tree.graph.nodes[j].inner
           /\ OutDegree(tree.graph, i) = 0
           /\ OutDegree(tree.graph, j) = 0)
          => /\ Len(NodeBytes(tree, i)) = Len(NodeBytes(tree, j))
             /\ {k \in 1..Len(NodeBytes(tree, i)) :
                    NodeBytes(tree, i)[k] /= NodeBytes(tree, j)[k]} = {NodeKindValuePos}
             /\ NodeBytes(tree, i)[NodeKindValuePos] = "leaf"
             /\ NodeBytes(tree, j)[NodeKindValuePos] = "tree"
             /\ tree.graph.nodes[i].hash /= tree.graph.nodes[j].hash

C8_Witness ==
    /\ pc = "hashed"
    /\ \E i, j \in TreeNodes(tree) :
          /\ tree.graph.nodes[i].kind = Leaf
          /\ tree.graph.nodes[j].kind = Tree
          /\ tree.graph.nodes[i].inner = tree.graph.nodes[j].inner
          /\ OutDegree(tree.graph, i) = 0
          /\ OutDegree(tree.graph, j) = 0
          /\ tree.graph.nodes[i].hash /= tree.graph.nodes[j].hash

(***************************************************************************)
(* C9: in the ObjectTree that create_from_root returns exactly one node    *)
(* has in-degree 0, and it is the node root_idx names.                     *)
(***************************************************************************)
C9_SingleRoot ==
    pc = "hashed" =>
       {i \in TreeNodes(tree) : InDegree(tree.graph, i) = 0} = {tree.root_idx}

C9_Witness ==
    /\ pc = "hashed"
    /\ Len(tree.graph.nodes) >= 3
    /\ InDegree(tree.graph, tree.root_idx) = 0

(***************************************************************************)
(* C10: in the ObjectTree that create_from_root returns, for any input,    *)
(* every node whose kind is Leaf has out-degree 0.                         *)
(***************************************************************************)
C10_LeafHasNoChildren ==
    pc = "hashed" =>
       \A i \in TreeNodes(tree) :
          tree.graph.nodes[i].kind = Leaf => OutDegree(tree.graph, i) = 0

(***************************************************************************)
(* C12: the writer appends the entry block, a blank line and the entry     *)
(* lines, exactly when the node's kind is Tree and it has entries; a Tree  *)
(* without children and any Leaf end with the payload.                     *)
(***************************************************************************)
C12_EntryBlockOnlyForTree ==
    pc = "hashed" =>
       \A i \in TreeNodes(tree) :
          (NodeBytes(tree, i)
             /= ToBytes(tree.graph.nodes[i].kind, tree.graph.nodes[i].inner, <<>>))
          <=> (tree.graph.nodes[i].kind = Tree /\ TreeEntries(tree, i) /= <<>>)

(***************************************************************************)
(* C14: the lifecycle only moves forward.  A call that is hashing or       *)
(* emitting never goes back to an unhashed tree, a returned ObjectTree     *)
(* stays as it is under every later operation, verify_hash included, and   *)
(* a tree the caller kept is not changed by building another one.          *)
(***************************************************************************)
C14_LifecycleForward ==
    [][ /\ (pc = "hashing" => pc' \in {"hashing", "emit", "failed"})
        /\ (pc = "hashing" => (graph' = graph \/ pc' = "failed"))
        /\ (pc = "emit" => pc' \in {"emit", "hashed", "failed"})
        /\ ((pc \in {"hashed", "verified"} /\ run' = run)
               => (pc' \in {"hashed", "verified"} /\ tree' = tree))
        /\ ((pc \in {"hashed", "verified"} /\ run' /= run) => prev'.tree = tree)
        /\ (run = 2 => prev' = prev) ]_vars

C14_Witness ==
    /\ run = 2
    /\ pc = "verified"
    /\ verdict.op = "verify"
    /\ Len(prev.tree.graph.nodes) >= 2
    /\ Len(tree.graph.nodes) >= 2

(***************************************************************************)
(* C19: for every input tree, whatever its depth, create_from_root ends    *)
(* and returns Ok: the call never fails, a call that started reaches the   *)
(* returned tree, and that tree holds every node of the input once.        *)
(***************************************************************************)
C19_TerminatesOk ==
    /\ [](pc /= "failed")
    /\ [](pc = "hashed" => Len(tree.graph.nodes) = TreeSize(input))
    /\ (pc = "start" ~> pc = "hashed")

C19_Witness ==
    /\ pc = "hashed"
    /\ tree.graph.edges = <<<<1, 2>>, <<2, 3>>>>
    /\ \A i \in TreeNodes(tree) : tree.graph.nodes[i].kind = Tree
    /\ TreeSize(input) = 3

(***************************************************************************)
(* C20: when the emission pass has emptied its stack, the graph it built   *)
(* is isomorphic to the unhashed graph: a bijection of the nodes maps the  *)
(* root to the root, maps edges to edges in both directions, keeps kind    *)
(* and payload, and gives each node the hash computed for its counterpart. *)
(***************************************************************************)
C20_EmissionIsomorphic ==
    (pc = "emit" /\ hstack = <<>>)
    => /\ Len(hgraph.nodes) = Len(graph.nodes)
       /\ \E f \in Permutations(1..Len(graph.nodes)) :
             /\ f[root_idx] = hroot_idx
             /\ {<<f[e[1]], f[e[2]]>> : e \in EdgeSet(graph)} = EdgeSet(hgraph)
             /\ Len(hgraph.edges) = Len(graph.edges)
             /\ \A i \in 1..Len(graph.nodes) :
                   /\ hgraph.nodes[f[i]].kind = graph.nodes[i].kind
                   /\ hgraph.nodes[f[i]].inner = graph.nodes[i].inner
                   /\ hgraph.nodes[f[i]].hash = hashes[i]

C20_Witness ==
    /\ pc = "emit"
    /\ hstack = <<>>
    /\ Len(hgraph.nodes) = 3
    /\ OutDegree(hgraph, hroot_idx) = 2
    /\ hgraph.nodes[2].hash /= hgraph.nodes[3].hash

(***************************************************************************)
(* C11: whatever the order of the entries handed to the writer, the entry  *)
(* lines of the serialized node are the lines of those entries, in         *)
(* ascending byte-wise lexicographic order of the entry name.              *)
(***************************************************************************)
C11_EntryLinesAscending ==
    verdict.op = "write" =>
       LET ls == EntryLinesOf(verdict.bytes)
           n == Len(input.entries)
       IN  /\ Len(ls) = n
           /\ \E p \in Permutations(1..n) :
                 \A i \in 1..n :
                    ls[i] \o <<NL>> = NodeEntryWriteBytes(<<>>, input.entries[p[i]])
           /\ \A i, j \in 1..n :
                 i < j => BytewiseLeq(EntryLineName(ls[i]), EntryLineName(ls[j]))

C11_Witness ==
    /\ verdict.op = "write"
    /\ Len(input.entries) = 3
    /\ input.entries[1].name = <<"b">>
    /\ input.entries[2].name = <<"a", "b">>
    /\ input.entries[3].name = <<"B">>
    /\ EntryLineName(EntryLinesOf(verdict.bytes)[1]) = <<"B">>
    /\ EntryLineName(EntryLinesOf(verdict.bytes)[2]) = <<"a", "b">>
    /\ EntryLineName(EntryLinesOf(verdict.bytes)[3]) = <<"b">>

(***************************************************************************)
(* C15: create_from_root, hash_tree, read_bytes and verify_hash end, on    *)
(* any input, malformed bytes included, with a whole result or with one    *)
(* GraphError.  A call that failed leaves no graph or tree behind, a call  *)
(* under way has returned nothing, and a node that read_bytes returns is   *)
(* whole: no line of its entry block was dropped.                          *)
(***************************************************************************)
C15_WholeResultOrError ==
    /\ pc = "failed" =>
          (err /= "none" /\ tree = NoTree /\ graph = GraphNew /\ hgraph = GraphNew
             /\ hashes = <<>>)
    /\ pc \in {"build", "unhashed", "hashing", "emit"} => (tree = NoTree /\ err = "none")
    /\ pc = "hashed" =>
          /\ err = "none"
          /\ Len(tree.graph.nodes) = TreeSize(input)
          /\ \A i \in TreeNodes(tree) :
                DOMAIN tree.graph.nodes[i] = {"kind", "hash", "inner"}
    /\ verdict.op \in {"read", "readback"} =>
          /\ OkOrGraphError(verdict.result.res)
          /\ verdict.result.res.ok => CompleteNode(verdict.result.res.val, verdict.bytes)
    /\ verdict.op \in {"verify", "tamper", "verify_read", "roundtrip"} =>
          /\ OkOrGraphError(verdict.result)
          /\ verdict.op /= "roundtrip" =>
                (verdict.result.ok \/ verdict.result.err[1] = "Verify")

C15_Witness ==
    /\ verdict.op = "read"
    /\ HeaderValid(verdict.bytes)
    /\ Len(EntryLinesOf(verdict.bytes)) = 3
    /\ ~verdict.result.res.ok
    /\ verdict.result.res.err = <<"ParseCustom", "missing name field in entry line">>

C17_WrittenNodePassesAsT ==
    verdict.op = "readback" =>
       (ObjectKindRejected(verdict.result.res)
          <=> HeaderObjectKind(verdict.bytes) /= <<InnerObjectKind(input.inner)>>)

(***************************************************************************)
(* C17, amended: read_bytes fails with ParseCustom("expected object kind   *)
(* to be prop") exactly when the version and node_kind lines are valid and *)
(* the object_kind header value is not `prop`, whatever T is; a node the   *)
(* writer wrote for a payload whose object_kind() is `prop` passes.        *)
(***************************************************************************)
C17_NonPropRejected ==
    verdict.op \in {"read", "readback"} =>
       /\ ObjectKindRejected(verdict.result.res)
            <=> (HeaderValid(verdict.bytes) /\ HeaderObjectKind(verdict.bytes) /= <<"prop">>)
       /\ (verdict.op = "readback" /\ InnerObjectKind(input.inner) = "prop")
            => ~ObjectKindRejected(verdict.result.res)

C17_Witness ==
    /\ verdict.op = "readback"
    /\ input.kind = Tree
    /\ Len(input.entries) >= 2
    /\ InnerObjectKind(input.inner) = "prop"
    /\ HeaderObjectKind(verdict.bytes) = <<"prop">>
    /\ verdict.result.res.ok

(***************************************************************************)
(* C18: for SchemaVariantChildNode read_bytes undoes write_bytes, for each *)
(* of the eight variants, and a `kind=` line whose value is none of the    *)
(* eight kind strings fails with ParseCustom.                              *)
(***************************************************************************)
C18_SchemaVariantChildRoundTrip ==
    /\ verdict.op = "svc_readback" =>
          /\ verdict.bytes = <<KEY_KIND_STR, EQ, kind_str(input.node), NL>>
          /\ verdict.result = [res |-> Ok(input.node), rest |-> <<>>]
    /\ verdict.op = "svc_read" =>
          LET line == NthLine(verdict.bytes, 1)
          IN  (/\ IsPrefix(<<KEY_KIND_STR, EQ>>, line)
               /\ SubSeq(line, 3, Len(line))
                    \notin { <<kind_str(n)>> : n \in SchemaVariantChildNode })
              => /\ ~verdict.result.res.ok
                 /\ verdict.result.res.err[1] = "ParseCustom"

C18_Witness ==
    /\ verdict.op = "svc_readback"
    /\ input.node = "ResourceValue"
    /\ verdict.bytes = <<"kind", "=", "resource_value", "\n">>
    /\ verdict.result.res = Ok("ResourceValue")

(***************************************************************************)
(* C21: hashing is post-order.  When compute_hashes is about to process a  *)
(* node, each of its direct children has its hash in the map; no call      *)
(* fails with UnhashedChild, the emission pass starts with a hash for      *)
(* every node and never fails with UnhashedNode.                           *)
(***************************************************************************)
C21_ChildrenHashedFirst ==
    /\ pc = "hashing" =>
          LET node_idx == DfsPostOrderNext(dfspo, graph).node
          IN  node_idx /= 0 =>
                 /\ node_idx \notin DOMAIN hashes
                 /\ \A k \in 1..Len(graph.edges) :
                       graph.edges[k][1] = node_idx => graph.edges[k][2] \in DOMAIN hashes
    /\ pc = "emit" => DOMAIN hashes = 1..Len(graph.nodes)
    /\ pc /= "failed"

C21_Witness ==
    /\ pc = "hashing"
    /\ DfsPostOrderNext(dfspo, graph).node = root_idx
    /\ OutDegree(graph, root_idx) = 2
    /\ DOMAIN hashes = {2, 3}

(***************************************************************************)
(* C22: the builder pushes a node's children reversed, so they are popped, *)
(* added to the graph and attached to their parent in the order the caller *)
(* gave them: the nodes of the graph are the nodes of the input in depth-  *)
(* first pre-order, and the edges run from each parent to its children in  *)
(* that order.                                                             *)
(***************************************************************************)
C22_BuiltInPreorder ==
    /\ pc \in {"build", "unhashed"} =>
          /\ IsPrefix(graph.nodes, Preorder(input))
          /\ IsPrefix(graph.edges, PreorderEdges(input))
    /\ pc = "unhashed" =>
          /\ graph.nodes = Preorder(input)
          /\ graph.edges = PreorderEdges(input)
          /\ root_idx = 1

C22_Witness ==
    /\ pc = "unhashed"
    /\ graph.edges = <<<<1, 2>>, <<2, 3>>, <<1, 4>>>>
    /\ InnerName(graph.nodes[2].inner) /= InnerName(graph.nodes[4].inner)
    /\ graph.nodes[2] = [kind |-> input.children[1].kind, inner |-> input.children[1].inner]
    /\ graph.nodes[4] = [kind |-> input.children[2].kind, inner |-> input.children[2].inner]

(***************************************************************************)
(* C26: through create_from_root the MultipleRootNode and MissingRootNode  *)
(* branches are never taken.  In the build pass and in the emission pass   *)
(* the only stack entry without a parent is the first one; the root index  *)
(* is set when that entry is popped, to the first node, and stays.         *)
(***************************************************************************)
C26_OneParentlessEntry ==
    /\ pc /= "failed"
    /\ pc = "build" =>
          \/ /\ graph.nodes = <<>>
             /\ root_idx = 0
             /\ stack = <<[node |-> input, parent_idx |-> 0]>>
          \/ /\ graph.nodes /= <<>>
             /\ root_idx = 1
             /\ \A k \in 1..Len(stack) : stack[k].parent_idx /= 0
    /\ pc = "emit" =>
          \/ /\ hgraph.nodes = <<>>
             /\ hroot_idx = 0
             /\ Len(hstack) = 1
             /\ hstack[1].parent_idx = 0
          \/ /\ hgraph.nodes /= <<>>
             /\ hroot_idx = 1
             /\ \A k \in 1..Len(hstack) : hstack[k].parent_idx /= 0

C26_Witness ==
    /\ pc = "emit"
    /\ hroot_idx = 1
    /\ Len(hstack) = 2
    /\ Len(hgraph.nodes) = 1
    /\ \A k \in 1..Len(hstack) : hstack[k].parent_idx = 1

(***************************************************************************)
(* C27: the ObjectTree returned has as many nodes as the input tree and    *)
(* one edge less; every node but the root has in-degree 1 and every node   *)
(* is reached from the root: a tree, also when siblings are identical.     *)
(***************************************************************************)
C27_ResultIsATree ==
    pc = "hashed" =>
       /\ Len(tree.graph.nodes) = TreeSize(input)
       /\ Len(tree.graph.edges) = Len(tree.graph.nodes) - 1
       /\ \A i \in TreeNodes(tree) \ {tree.root_idx} : InDegree(tree.graph, i) = 1
       /\ InDegree(tree.graph, tree.root_idx) = 0
       /\ ReachableFrom(tree.graph, {tree.root_idx}) = TreeNodes(tree)

C27_Witness ==
    /\ pc = "hashed"
    /\ Len(tree.graph.nodes) = 3
    /\ tree.graph.edges = <<<<1, 2>>, <<1, 3>>>>
    /\ tree.graph.nodes[2] = tree.graph.nodes[3]

(***************************************************************************)
(* C23: read_key_value_line removes the trailing newline of the line, and  *)
(* nothing else, splits at the first `=`, returns the value, all that      *)
(* follows the first `=`, when the key is the expected one, fails with     *)
(* ParseLineKeyValueFormat when the line has no `=` and with               *)
(* ParseLineExpectedKey(expected, got) when the key differs.  As stated:   *)
(***************************************************************************)
C23_OnlyNewlineRemoved ==
    verdict.op = "kv_read" =>
       LET l == ReadLine(verdict.bytes)
       IN  verdict.result
             = [res |-> KeyValueOutcome(ChopNewline(l.line), l.line, input.key),
                rest |-> l.rest]

(***************************************************************************)
(* C23, amended: read_key_value_line removes all trailing white space of   *)
(* the line, the newline included, and then splits at the first `=`, with  *)
(* the results and errors as stated.                                       *)
(***************************************************************************)
C23_TrailingWhiteSpaceRemoved ==
    verdict.op = "kv_read" =>
       LET l == ReadLine(verdict.bytes)
       IN  verdict.result
             = [res |-> KeyValueOutcome(TrimEnd(l.line), l.line, input.key),
                rest |-> l.rest]

C23_Witness ==
    /\ verdict.op = "kv_read"
    /\ verdict.bytes = <<"version", EQ, "a", EQ, "b", NL, "x", NL>>
    /\ verdict.result = [res |-> Ok(<<"a", EQ, "b">>), rest |-> <<"x", NL>>]

(***************************************************************************)
(* C24: reading a blank line succeeds only for a line that is exactly a    *)
(* newline; a line with any other content fails with ParseLineBlank.       *)
(* As stated:                                                              *)
(***************************************************************************)
C24_OnlyNewlineIsBlank ==
    verdict.op = "blank_read" =>
       LET l == ReadLine(verdict.bytes)
       IN  /\ verdict.result.res.ok <=> l.line = <<NL>>
           /\ ~verdict.result.res.ok
                => verdict.result.res = Err(<<"ParseLineBlank", l.line>>)

(***************************************************************************)
(* C24, amended: reading a blank line succeeds only for a line that holds  *)
(* nothing but white space: a newline, white space before the newline, or  *)
(* the empty line read at the end of the input; a line with any other      *)
(* content fails with ParseLineBlank.                                      *)
(***************************************************************************)
C24_OnlyWhiteSpaceIsBlank ==
    verdict.op = "blank_read" =>
       LET l == ReadLine(verdict.bytes)
       IN  /\ verdict.result.rest = l.rest
           /\ verdict.result.res.ok <=> (\A k \in 1..Len(l.line) : l.line[k] \in WhiteSpace)
           /\ ~verdict.result.res.ok
                => verdict.result.res = Err(<<"ParseLineBlank", l.line>>)

C24_Witness ==
    /\ verdict.op = "blank_read"
    /\ verdict.bytes = <<SP, "x", NL, NL>>
    /\ verdict.result.res = Err(<<"ParseLineBlank", <<SP, "x", NL>>>>)

(***************************************************************************)
(* C25: read_node_entry_lines splits each line from the right on at most   *)
(* two spaces into kind, hash and name.  Lines the writer wrote for        *)
(* entries whose names hold no space give back those entries; a line of    *)
(* two fields fails with ParseCustom("missing name field in entry line"),  *)
(* a kind or hash that does not parse fails with Parse; the first line     *)
(* that fails ends the read and no entries are returned.                   *)
(***************************************************************************)
C25_EntryLinesParsed ==
    verdict.op = "entries_read" =>
       LET k == FirstMalformed(input.lines)
       IN  IF k = 0
           THEN verdict.result = Ok([i \in 1..Len(input.lines) |-> input.lines[i].entry[1]])
           ELSE verdict.result = Err(MalformedEntryLineError(input.lines[k].line))

C25_Witness ==
    /\ verdict.op = "entries_read"
    /\ Len(input.lines) = 2
    /\ input.lines[1].entry /= <<>>
    /\ input.lines[2].line = <<"tree", SP, CodecHash1, NL>>
    /\ verdict.result = Err(<<"ParseCustom", "missing name field in entry line">>)

(***************************************************************************)
(* Code generation over a websocket (lib/cyclone/src/server/               *)
(* code_generation.rs).  An execution is three values, each made by the    *)
(* method of the one before it: CodeGenerationExecution::start gives a     *)
(* CodeGenerationServerExecutionStarted, its process gives a               *)
(* CodeGenerationServerExecutionClosing, whose finish ends the execution.  *)
(* There is one action per await of these methods; what the websocket,     *)
(* the child process and the serializer answer is chosen by the            *)
(* environment.  ws.sent holds the messages whose send has succeeded.      *)
(***************************************************************************)

\* Message::Start, Message::Finish
MessageStart == [kind |-> "Start"]
MessageFinish == [kind |-> "Finish"]

\* what the child process may write to its stdout
LangServerCodeGenerationMessage ==
    { [protocol |-> "output", message |-> m] : m \in {"m1", "m2"} }
    \cup { [protocol |-> "result", status |-> st] : st \in {"success"} }

\* the first map of process: a message of the child as a Message
MessageFrom(ls_msg) ==
    IF ls_msg.protocol = "output"
    THEN [kind |-> "OutputStream", message |-> ls_msg.message]
    ELSE [kind |-> "Result", status |-> ls_msg.status]

\* WebSocketMessage::Text of the serialized message
WebSocketMessageText(msg) == [type |-> "Text", json |-> <<"json", msg>>]

\* what ws.next() may yield to read_request
WsIncoming ==
    {[some |-> TRUE, ok |-> TRUE, type |-> "Text", json |-> "request"],
     [some |-> TRUE, ok |-> TRUE, type |-> "Text", json |-> "not a request"],
     [some |-> TRUE, ok |-> TRUE, type |-> "Binary", json |-> ""],
     [some |-> TRUE, ok |-> FALSE, type |-> "", json |-> ""],
     [some |-> FALSE, ok |-> FALSE, type |-> "", json |-> ""]}

CodeGenerationInit ==
    /\ run = 1
    /\ pc = "execute"
    /\ input = [lang_server_path |-> "lang-js"]
    /\ stack = <<>>
    /\ graph = GraphNew
    /\ root_idx = 0
    /\ hashes = <<>>
    /\ dfspo = NoDfs
    /\ hgraph = GraphNew
    /\ hroot_idx = 0
    /\ hstack = <<>>
    /\ tree = NoTree
    /\ err = "none"
    /\ verdict = NoVerdict
    /\ prev = NoPrev
    /\ schematic = NoSchematic
    /\ NoExecution

\* a method of the execution returns Err(e)
ExecutionFail(at, e) ==
    /\ pc' = at
    /\ err' = e

\* start: Self::ws_send_start(ws).await?
WsSendStart ==
    /\ pc = "execute"
    /\ \E outcome \in {"Ok", "JSONSerialize", "SendTimeout", "WSSendIO"} :
          IF outcome = "Ok"
          THEN /\ ws' = [ws EXCEPT !.sent = Append(@, WebSocketMessageText(MessageStart))]
               /\ pc' = "read_request"
               /\ err' = err
          ELSE /\ ExecutionFail("start_failed", outcome)
               /\ ws' = ws
    /\ UNCHANGED <<run, input, tree_vars, verdict, prev, schematic,
                   request, child, stdout, finished, closed, shutdown>>

\* start: let request = Self::read_request(ws).await?
ReadRequest ==
    /\ pc = "read_request"
    /\ \E m \in WsIncoming :
          IF m.some /\ m.ok /\ m.type = "Text" /\ m.json = "request"
          THEN /\ request' = <<m.json>>
               /\ pc' = "spawn"
               /\ err' = err
          ELSE /\ ExecutionFail("start_failed",
                                IF ~m.some THEN "WSRecvClosed"
                                ELSE IF ~m.ok THEN "WSRecvIO"
                                ELSE IF m.type /= "Text" THEN "UnexpectedMessageType"
                                ELSE "JSONDeserialize")
               /\ request' = request
    /\ UNCHANGED <<run, input, tree_vars, verdict, prev, schematic,
                   ws, child, stdout, finished, closed, shutdown>>

\* start: command.spawn()
SpawnChild ==
    /\ pc = "spawn"
    /\ \E outcome \in {"Ok", "ChildSpawn"} :
          IF outcome = "Ok"
          THEN /\ child' = [child EXCEPT !.state = "running"]
               /\ pc' = "send_request"
               /\ err' = err
          ELSE /\ ExecutionFail("start_failed", outcome)
               /\ child' = child
    /\ UNCHANGED <<run, input, tree_vars, verdict, prev, schematic,
                   ws, request, stdout, finished, closed, shutdown>>

\* start: Self::child_send_function_request(stdin, request).await?, the
\* send and the close of the child's stdin, and the framing of its stdout.
\* Both pipes were asked for, so neither take() gives None.
ChildSendFunctionRequest ==
    /\ pc = "send_request"
    /\ \E sent \in {"Ok", "SendTimeout", "ChildSendIO"},
          stdin_closed \in {"Ok", "SendTimeout", "ChildSendIO"} :
          IF sent /= "Ok"
          THEN /\ ExecutionFail("start_failed", sent)
               /\ child' = child
          ELSE /\ child' = [child EXCEPT !.stdin = request]
               /\ IF stdin_closed /= "Ok"
                  THEN ExecutionFail("start_failed", stdin_closed)
                  ELSE /\ pc' = "started"
                       /\ err' = err
    /\ UNCHANGED <<run, input, tree_vars, verdict, prev, schematic,
                   ws, request, stdout, finished, closed, shutdown>>

\* the loop of process goes on after a send that failed
ProcessMessageIgnoringSendError ==
    /\ pc = "started"
    /\ Len(stdout.yielded) < MaxOutput
    /\ \E item \in { Ok(m) : m \in LangServerCodeGenerationMessage }
                   \cup {Err("ChildRecvIO")},
          serialized \in BOOLEAN, sent \in BOOLEAN :
          /\ stdout' = [stdout EXCEPT !.yielded = Append(@, item)]
          /\ IF ~item.ok THEN /\ ExecutionFail("process_failed", item.err)
                              /\ ws' = ws
             ELSE IF ~serialized THEN /\ ExecutionFail("process_failed", "JSONSerialize")
                                      /\ ws' = ws
             ELSE IF ~sent THEN /\ UNCHANGED <<pc, err>>
                                /\ ws' = ws
             ELSE /\ ws' = [ws EXCEPT !.sent =
                                Append(@, WebSocketMessageText(MessageFrom(item.val)))]
                  /\ UNCHANGED <<pc, err>>
    /\ UNCHANGED <<run, input, tree_vars, verdict, prev, schematic,
                   request, child, finished, closed, shutdown>>

\* process: one turn of `while let Some(msg) = stream.try_next().await?`
\* in which the stream yields an item: the child's message or the error of
\* receiving it, mapped to a Message, serialized, and sent on the websocket
ProcessMessage ==
    /\ pc = "started"
    /\ Len(stdout.yielded) < MaxOutput
    /\ \E item \in { Ok(m) : m \in LangServerCodeGenerationMessage }
                   \cup {Err("ChildRecvIO")},
          serialized \in BOOLEAN, sent \in BOOLEAN :
          /\ stdout' = [stdout EXCEPT !.yielded = Append(@, item)]
          /\ IF ~item.ok THEN /\ ExecutionFail("process_failed", item.err)
                              /\ ws' = ws
             ELSE IF ~serialized THEN /\ ExecutionFail("process_failed", "JSONSerialize")
                                      /\ ws' = ws
             ELSE IF ~sent THEN /\ ExecutionFail("process_failed", "WSSendIO")
                                /\ ws' = ws
             ELSE /\ ws' = [ws EXCEPT !.sent =
                                Append(@, WebSocketMessageText(MessageFrom(item.val)))]
                  /\ UNCHANGED <<pc, err>>
    /\ UNCHANGED <<run, input, tree_vars, verdict, prev, schematic,
                   request, child, finished, closed, shutdown>>

\* process: the stream has ended, Ok(CodeGenerationServerExecutionClosing)
ProcessEnd ==
    /\ pc = "started"
    /\ stdout' = [stdout EXCEPT !.ended = TRUE]
    /\ pc' = "closing"
    /\ UNCHANGED <<run, input, tree_vars, err, verdict, prev, schematic,
                   ws, request, child, finished, closed, shutdown>>

\* finish: let finished = Self::ws_send_finish(&mut ws).await
WsSendFinish ==
    /\ pc = "closing"
    /\ \E outcome \in {"Ok", "JSONSerialize", "SendTimeout", "WSSendIO"} :
          IF outcome = "Ok"
          THEN /\ ws' = [ws EXCEPT !.sent = Append(@, WebSocketMessageText(MessageFinish))]
               /\ finished' = Ok(<<>>)
          ELSE /\ ws' = ws
               /\ finished' = Err(outcome)
    /\ pc' = "ws_close"
    /\ UNCHANGED <<run, input, tree_vars, err, verdict, prev, schematic,
                   request, child, stdout, closed, shutdown>>

\* finish: let closed = Self::ws_close(ws).await
WsClose ==
    /\ pc = "ws_close"
    /\ \E outcome \in {"Ok", "WSClose"} :
          IF outcome = "Ok"
          THEN /\ ws' = [ws EXCEPT !.closed = TRUE]
               /\ closed' = Ok(<<>>)
          ELSE /\ ws' = ws
               /\ closed' = Err(outcome)
    /\ pc' = "child_shutdown"
    /\ UNCHANGED <<run, input, tree_vars, err, verdict, prev, schematic,
                   request, child, stdout, finished, shutdown>>

\* the error of the step run last
FinishResultOfLastFailure(fin, clo, shu) ==
    IF ~shu.ok THEN shu
    ELSE IF ~clo.ok THEN clo
    ELSE IF ~fin.ok THEN fin
    ELSE Ok(<<>>)

\* finish: match (finished, closed, shutdown)
FinishResult(fin, clo, shu) ==
    CASE fin.ok /\ clo.ok /\ shu.ok -> Ok(<<>>)
      [] fin.ok /\ clo.ok /\ ~shu.ok -> shu
      [] fin.ok /\ ~clo.ok /\ shu.ok -> clo
      [] ~fin.ok /\ clo.ok /\ shu.ok -> fin
      [] fin.ok /\ ~clo.ok /\ ~shu.ok -> clo
      [] ~fin.ok /\ clo.ok /\ ~shu.ok -> fin
      [] ~fin.ok /\ ~clo.ok /\ shu.ok -> fin
      [] ~fin.ok /\ ~clo.ok /\ ~shu.ok -> fin

\* finish: let shutdown = process::child_shutdown(..).await, the drop of
\* the child and the match that gives the result of finish
ChildShutdown ==
    /\ pc = "child_shutdown"
    /\ \E outcome \in {"Ok", "ChildShutdown"} :
          /\ shutdown' = IF outcome = "Ok" THEN Ok(<<>>) ELSE Err(outcome)
          /\ child' = [child EXCEPT !.state = IF outcome = "Ok" THEN "exited" ELSE "dropped"]
          /\ verdict' = [op |-> "finish",
                         result |-> FinishResult(finished, closed, shutdown')]
    /\ pc' = "finished"
    /\ UNCHANGED <<run, input, tree_vars, err, prev, schematic,
                   ws, request, stdout, finished, closed>>

CodeGenerationNext ==
    \/ WsSendStart
    \/ ReadRequest
    \/ SpawnChild
    \/ ChildSendFunctionRequest
    \/ ProcessMessage
    \/ ProcessEnd
    \/ WsSendFinish
    \/ WsClose
    \/ ChildShutdown

CodeGenerationSpec == CodeGenerationInit /\ [][CodeGenerationNext]_vars

\* the messages of the child the websocket has been sent
Forwarded ==
    SelectSeq(ws.sent, LAMBDA m : m \notin {WebSocketMessageText(MessageStart),
                                            WebSocketMessageText(MessageFinish)})

(***************************************************************************)
(* C28: finish runs its three steps in order, the send of Finish, the      *)
(* close of the websocket and the shutdown of the child, whether or not    *)
(* an earlier one failed.  It returns Ok only if the three succeeded, and  *)
(* otherwise the error of the failed step of highest priority: the send    *)
(* of Finish before the close of the websocket before the shutdown of the  *)
(* child.                                                                  *)
(***************************************************************************)
C28_FinishRunsAllSteps ==
    /\ closed /= NotRun => finished /= NotRun
    /\ shutdown /= NotRun => closed /= NotRun
    /\ finished /= NotRun /\ pc /= "ws_close" => closed /= NotRun
    /\ closed /= NotRun /\ pc /= "child_shutdown" => shutdown /= NotRun
    /\ pc = "finished" =>
         /\ finished /= NotRun /\ closed /= NotRun /\ shutdown /= NotRun
         /\ verdict.op = "finish"
         /\ verdict.result.ok <=> finished.ok /\ closed.ok /\ shutdown.ok
         /\ ~finished.ok => verdict.result = finished
         /\ finished.ok /\ ~closed.ok => verdict.result = closed
         /\ finished.ok /\ closed.ok /\ ~shutdown.ok => verdict.result = shutdown

C28_Witness ==
    /\ pc = "finished"
    /\ finished = Err("SendTimeout")
    /\ closed = Err("WSClose")
    /\ shutdown = Err("ChildShutdown")
    /\ verdict.result = Err("SendTimeout")

(***************************************************************************)
(* C29: an execution goes start, process, finish.  Start is sent on the    *)
(* websocket before the request is read, the child is spawned only after   *)
(* a request was read, the child's messages are forwarded to the websocket *)
(* in the order the child produced them, forwarding stops at the first     *)
(* error of receiving, serializing or sending, and Finish is sent only     *)
(* after the child's output has ended without an error.                    *)
(***************************************************************************)
C29_StartProcessFinishOrder ==
    /\ request /= <<>> =>
         ws.sent /= <<>> /\ ws.sent[1] = WebSocketMessageText(MessageStart)
    /\ child.state /= "none" => request /= <<>>
    /\ stdout.yielded /= <<>> \/ stdout.ended => child.stdin = request /\ request /= <<>>
    /\ Len(Forwarded) <= Len(stdout.yielded)
    /\ \A i \in 1..Len(Forwarded) :
          /\ stdout.yielded[i].ok
          /\ Forwarded[i] = WebSocketMessageText(MessageFrom(stdout.yielded[i].val))
    /\ Len(Forwarded) < Len(stdout.yielded) =>
          /\ Len(Forwarded) = Len(stdout.yielded) - 1
          /\ pc = "process_failed"
          /\ ~stdout.ended
    /\ finished /= NotRun
       \/ (\E i \in 1..Len(ws.sent) : ws.sent[i] = WebSocketMessageText(MessageFinish)) =>
          /\ stdout.ended
          /\ Len(Forwarded) = Len(stdout.yielded)
    /\ \A i \in 1..Len(ws.sent) :
          ws.sent[i] = WebSocketMessageText(MessageFinish) => i = Len(ws.sent)

C29_Witness ==
    /\ pc = "finished"
    /\ ws.sent = <<WebSocketMessageText(MessageStart),
                   WebSocketMessageText(MessageFrom([protocol |-> "output", message |-> "m2"])),
                   WebSocketMessageText(MessageFrom([protocol |-> "output", message |-> "m1"])),
                   WebSocketMessageText(MessageFinish)>>

(***************************************************************************)
(* Schematic::prune_node (components/si-model/src/schematic.rs).  A        *)
(* Schematic holds nodes, a map from node id to SchematicNode, and edges,  *)
(* a map from edge id to Edge.  A SchematicNode holds its connections,     *)
(* two maps from edge kind to a list of ConnectionEdge, which the builders *)
(* of a Schematic never leave empty.  A map is a function on its keys.     *)
(***************************************************************************)
SchematicNodeIds == {"n1", "n2"}
SchematicEdgeIds == {"e1"}
EdgeKinds == {"configures"}

ConnectionEdge ==
    { [edge_id |-> e, node_id |-> n, socket_id |-> "s"] :
        e \in SchematicEdgeIds, n \in SchematicNodeIds }

\* the lists of connection edges of at most n elements, none empty
RECURSIVE ConnectionEdgeLists(_)
ConnectionEdgeLists(n) ==
    IF n = 0 THEN {}
    ELSE {<<c>> : c \in ConnectionEdge}
         \cup ConnectionEdgeLists(n - 1)
         \cup { Append(l, c) : l \in ConnectionEdgeLists(n - 1), c \in ConnectionEdge }

\* the maps from some of `keys` to one of `values`
MapsOf(keys, values) ==
    UNION { [ks -> values] : ks \in SUBSET keys }

Connections ==
    { [predecessors |-> p, successors |-> su] :
        p \in MapsOf(EdgeKinds, ConnectionEdgeLists(MaxPredecessors)),
        su \in MapsOf(EdgeKinds, ConnectionEdgeLists(MaxSuccessors)) }

SchematicNode(id) ==
    { [node |-> [id |-> id], connections |-> c] : c \in Connections }

Edge ==
    { [tail_vertex |-> [node_id |-> t], head_vertex |-> [node_id |-> h]] :
        t \in SchematicNodeIds, h \in SchematicNodeIds }

Schematic ==
    { [nodes |-> ns, edges |-> es] :
        ns \in UNION { { f \in [ks -> UNION { SchematicNode(k) : k \in ks }] :
                            \A k \in ks : f[k].node.id = k } :
                       ks \in SUBSET SchematicNodeIds },
        es \in MapsOf(SchematicEdgeIds, Edge) }

SchematicInputs ==
    { [schematic |-> sc, prune_node_id |-> id] :
        sc \in Schematic, id \in SchematicNodeIds }

SchematicInit ==
    /\ run = 1
    /\ pc = "schematic"
    /\ input \in SchematicInputs
    /\ schematic = input.schematic
    /\ stack = <<>>
    /\ graph = GraphNew
    /\ root_idx = 0
    /\ hashes = <<>>
    /\ dfspo = NoDfs
    /\ hgraph = GraphNew
    /\ hroot_idx = 0
    /\ hstack = <<>>
    /\ tree = NoTree
    /\ err = "none"
    /\ verdict = NoVerdict
    /\ prev = NoPrev
    /\ NoExecution

\* Vec::retain(|connection_edge| connection_edge.node_id != prune_node_id)
RetainConnectionEdges(connection_edges, prune_node_id) ==
    SelectSeq(connection_edges, LAMBDA connection_edge :
                                   connection_edge.node_id /= prune_node_id)

\* the lists are filtered and the empty ones stay in the map
PruneConnectionsKeepingEmpty(connections, prune_node_id) ==
    [k \in DOMAIN connections |-> RetainConnectionEdges(connections[k], prune_node_id)]

\* the two steps made on predecessors and on successors: the retain on
\* each list of the map, then HashMap::retain(|_, values| !values.is_empty())
PruneConnections(connections, prune_node_id) ==
    Let([k \in DOMAIN connections |->
            RetainConnectionEdges(connections[k], prune_node_id)],
        LAMBDA retained :
            [k \in {j \in DOMAIN retained : retained[j] /= <<>>} |-> retained[k]])

\* Schematic::prune_node(&mut self, prune_node_id), as the new value of self
prune_node(self, prune_node_id) ==
    [nodes |->
        [key \in DOMAIN self.nodes \ {prune_node_id} |->
            [self.nodes[key] EXCEPT
                !.connections =
                    [predecessors |-> PruneConnections(@.predecessors, prune_node_id),
                     successors |-> PruneConnections(@.successors, prune_node_id)]]],
     edges |->
        [key \in {e \in DOMAIN self.edges :
                     /\ self.edges[e].head_vertex.node_id /= prune_node_id
                     /\ self.edges[e].tail_vertex.node_id /= prune_node_id} |->
            self.edges[key]]]

\* schematic.prune_node(id), a first and a second time; prev keeps self
\* as it was before the call
PruneNode ==
    /\ pc \in {"schematic", "pruned"}
    /\ UNCHANGED cyclone_vars
    /\ prev' = schematic
    /\ schematic' = prune_node(schematic, input.prune_node_id)
    /\ pc' = IF pc = "schematic" THEN "pruned" ELSE "pruned again"
    /\ UNCHANGED <<run, input, tree_vars, err, verdict>>

SchematicNext ==
    \/ PruneNode

SchematicSpec == SchematicInit /\ [][SchematicNext]_vars

\* the connection edges of a list that do not refer to `id`, in order
NotReferring(connection_edges, id) ==
    SelectSeq(connection_edges, LAMBDA c : c.node_id /= id)

\* map `after` is map `before` with the connection edges that refer to
\* `id` taken out and nothing else changed
ConnectionsPruned(before, after, id) ==
    /\ DOMAIN after \subseteq DOMAIN before
    /\ \A k \in DOMAIN after : after[k] /= <<>> /\ after[k] = NotReferring(before[k], id)
    /\ \A k \in DOMAIN before \ DOMAIN after : NotReferring(before[k], id) = <<>>
    /\ \A k \in DOMAIN after : \A i \in 1..Len(after[k]) : after[k][i].node_id /= id

(***************************************************************************)
(* C30: after prune_node(id) no node is keyed by id, no connection edge of *)
(* a node that remains has node_id = id, no list of connection edges is    *)
(* empty, no edge has id at its head or its tail; every node, connection   *)
(* edge and edge that does not refer to id is as it was, and a second      *)
(* prune_node(id) changes nothing.                                         *)
(***************************************************************************)
C30_PruneNodeRemovesAllOfId ==
    pc \in {"pruned", "pruned again"} =>
       LET id == input.prune_node_id
       IN  /\ DOMAIN schematic.nodes = DOMAIN prev.nodes \ {id}
           /\ \A n \in DOMAIN schematic.nodes :
                 /\ schematic.nodes[n].node = prev.nodes[n].node
                 /\ DOMAIN schematic.nodes[n] = DOMAIN prev.nodes[n]
                 /\ ConnectionsPruned(prev.nodes[n].connections.predecessors,
                                      schematic.nodes[n].connections.predecessors, id)
                 /\ ConnectionsPruned(prev.nodes[n].connections.successors,
                                      schematic.nodes[n].connections.successors, id)
           /\ DOMAIN schematic.edges
                = {e \in DOMAIN prev.edges : /\ prev.edges[e].head_vertex.node_id /= id
                                             /\ prev.edges[e].tail_vertex.node_id /= id}
           /\ \A e \in DOMAIN schematic.edges : schematic.edges[e] = prev.edges[e]
           /\ pc = "pruned again" => schematic = prev

C30_Witness ==
    /\ pc = "pruned"
    /\ input.prune_node_id = "n1"
    /\ DOMAIN prev.nodes = {"n1", "n2"}
    /\ DOMAIN prev.edges = {"e1"}
    /\ DOMAIN prev.nodes["n2"].connections.predecessors = {"configures"}
    /\ DOMAIN prev.nodes["n2"].connections.successors = {"configures"}
    /\ Len(prev.nodes["n2"].connections.predecessors["configures"]) = 2
    /\ DOMAIN schematic.nodes["n2"].connections.predecessors = {"configures"}
    /\ Len(schematic.nodes["n2"].connections.predecessors["configures"]) = 1
    /\ schematic.nodes["n2"].connections.successors = <<>>
    /\ schematic.edges = <<>>

====
